---- MODULE Spec2Model ----
(***************************************************************************)
(* The chat endpoint of src/app/api/chat/route.ts.  The file holds two     *)
(* implementations of the streaming endpoint:                              *)
(*   variant "ai"  : createAIStream  (AI SDK streamText, in-memory         *)
(*                   conversationStore), GET/POST of lines 317-423;        *)
(*   variant "sse" : createSSEStream (LangGraph graph of createGraph),     *)
(*                   GET of lines 756-799.                                 *)
(* One deployment runs one of them; `variant` is fixed in Init.            *)
(*                                                                         *)
(* Text is a sequence of tokens.  A token the model generates is the       *)
(* number of the model turn (step) that generated it, so the text of a     *)
(* `content` event tells which model turn it comes from.  The user message *)
(* of the n-th request is the token MsgBase + n; the turns of a            *)
(* pre-existing history are numbered from HistBase.                        *)
(*                                                                         *)
(* The language model, the search service and the stream libraries are     *)
(* the environment: what they produce is drawn nondeterministically,       *)
(* within the budgets of `budget`.                                         *)
(*                                                                         *)
(* Besides the single stream followed step by step, the module holds the   *)
(* request handlers (validateEnvironment, verifyAuthentication, the        *)
(* message check: SpecGate), streams of several requests in flight at the  *)
(* same time with client disconnects (SpecLoops), and submitMessage of     *)
(* src/app/actions.tsx with the Redis client of src/lib/database/redis.ts  *)
(* (SpecSubmit), and the hooks of the page that read the stream and fold   *)
(* its events into the assistant message: alone on any frames in any       *)
(* chunks (SpecClient, SpecClientLive) and behind the server               *)
(* (SpecEndToEnd, and SpecDelivery where the page reads while the server   *)
(* writes).  SpecAILive is createAIStream under fair scheduling,           *)
(* SpecLoopsHistory and SpecLoopsClear are overlapping streams on a long   *)
(* conversation and with a clear request among them, and SpecSessions is   *)
(* the page's chat sessions in localStorage with the hook's checkpointId.  *)
(***************************************************************************)
EXTENDS Integers, Sequences, FiniteSets, TLC

\* ------------------------------------------------------------ bounds
MaxRequests == 2        \* chat requests served in one behaviour
MaxClears == 1          \* clear requests served in one behaviour
MaxChunks == 2          \* text chunks the model emits in one behaviour
MaxSearches == 2        \* tool calls the model requests in one behaviour
MaxFailures == 1        \* tool executions that fail in one behaviour
MaxCallsPerStep == 2    \* tool calls one model turn may request
MaxQueued == 1          \* chunks result.textStream holds unread
MaxEmptyQueries == 1    \* tool calls with an empty query in one behaviour
MaxLoops == 2           \* streams in flight at the same time
MaxLoopSteps == 2       \* chunks and tool calls of one stream in flight
MaxCalls == 2           \* calls of submitMessage in one behaviour
MaxTextChunks == 1      \* text chunks of one answer of submitMessage
MaxTurns == 2           \* calls of sendMessage in one behaviour
MaxFrames == 2          \* frames the network carries to the client in one behaviour
MaxSessions == 3        \* chat sessions the page creates in one behaviour
MaxFetches == 3         \* requests the page sends in one behaviour of its sessions

\* ------------------------------------------------- program constants
maxSteps == 5           \* streamText({ maxSteps: 5 })
HistoryLimit == 50      \* addToConversationHistory: history.length > 50

\* ------------------------------------------------------ value spaces
ThreadSeq == <<"t1", "t2", "t3">> \* the ids the server generates, in this order
ThreadIds == {ThreadSeq[i] : i \in 1..Len(ThreadSeq)}
NoId == "none"
MsgBase == 100              \* the n-th request's message is the token MsgBase + n
HistBase == 1000
Queries == {"", "q1"}
ResultLists == {<< >>, <<"u1", "u2">>}
FailReasons == {"timeout"}
ModelError == "model_error"

VARIABLES
  variant,          \* "ai" | "sse": which implementation serves the requests
  conversationStore,\* Map<string, ChatMessage[]> (route.ts:108)
  completed,        \* ghost: per thread, every turn a finished loop appended since the last clear
  issued,           \* ghost: checkpoint ids handed to a client in a `checkpoint` event
  usedIds,          \* ghost: ids that were ever generated or supplied
  requests,         \* chat requests served so far
  pc,               \* "idle" | "running" | "closed": the stream of the current request
  checkpointParam,  \* the request's checkpoint_id parameter, NoId when absent
  threadId,         \* the stream's thread id
  message,          \* the request's message (one token)
  events,           \* the SSE events enqueued on the stream, in order
  modelMessages,    \* the `messages` argument of the first model call
  storeAtStart,     \* ghost: conversationStore when the request started
  searchQuery, searchUrls,              \* locals of both stream functions
  isProcessingToolCall, fullResponse,   \* locals of createAIStream
  toolCallDetected, toolCallExecuted,   \* locals of createSSEStream
  step,             \* the number of the current model turn, from 1
  phase,            \* what the agent is doing: "model" | "tools" | "finish" | "ended" | "failed"
  textQ,            \* createAIStream: chunks of result.textStream not yet read by the loop
  toolCalls,        \* the tool calls (queries) requested by the current model turn
  toolResults,      \* the results of the tool calls executed in the current turn
  toolFeedback,     \* the tool results fed back to the model so far
  budget,           \* what the environment may still produce
  toolTurns,        \* ghost: the model turns of this stream that ended in a tool request
  failedCalls,      \* ghost: tool executions of this stream that failed
  modelFailed,      \* ghost: a model call of this stream failed
  generated,        \* ghost: the text the model has generated for this stream
  threw,            \* ghost: an exception reached the catch block of start()
  loops,            \* the streams in flight when requests overlap, one per slot
  env,              \* process.env: the names of the variables that are set
  request,          \* the last request a handler received
  httpResponse,     \* the Response its handler returned
  redisData,        \* the Upstash database: key -> stored string
  autoDeserialize,  \* whether the Redis client parses what it reads (its option automaticDeserialization)
  submits,          \* the calls of submitMessage, one per slot
  lastSaved,        \* ghost: per user, the history saveChatHistory was last called with
  client,           \* which hook the page uses
  sends,            \* the calls of sendMessage / send, one per slot
  aiMessages,       \* the assistant message of each call, as the session shows it
  isStreaming,      \* the hook's state isStreaming
  closureStreaming, \* isStreaming as the callback of the last render captured it
  abortControllerRef, \* the call whose controller the ref holds, 0 for null
  netBudget,        \* frames the network may still carry
  localStorage,     \* the item "chat-sessions": the ids of the stored sessions, in order
  sessions,         \* the hook's state `sessions`, as its callbacks captured it
  currentSessionId, \* the page's state currentSessionId, 0 for null
  checkpointId,     \* the hook's state checkpointId, NoId for null
  pageStream,       \* the stream sendMessage is reading: its session and the checkpoint it may deliver
  fetched,          \* the requests the hook has sent, in order
  sessionCount,     \* sessions created so far (their ids are 1, 2, ...)
  handedOut,        \* checkpoint ids the server has put in a checkpoint event
  removed,          \* ghost: sessions deleteSession or clearAllSessions removed from the item
  lastCreate,       \* ghost: the item before and after the last createNewChat
  receivedFor       \* ghost: per session, the checkpoint id last received on a stream of it

storeVars == <<conversationStore, completed, issued, usedIds>>
reqVars == <<requests, checkpointParam, threadId, message, modelMessages, storeAtStart>>
loopVars == <<searchQuery, searchUrls, isProcessingToolCall, fullResponse,
              toolCallDetected, toolCallExecuted>>
envVars == <<step, phase, textQ, toolCalls, toolResults, toolFeedback, budget,
             toolTurns, failedCalls, modelFailed, generated>>
streamVars == <<pc, checkpointParam, threadId, message, modelMessages, storeAtStart,
                events, loopVars, envVars, threw>>
gateVars == <<request, httpResponse>>
submitVars == <<redisData, autoDeserialize, submits, lastSaved>>
clientVars == <<client, sends, aiMessages, isStreaming, closureStreaming,
                abortControllerRef, netBudget>>
pageVars == <<localStorage, sessions, currentSessionId, checkpointId, pageStream, fetched,
              sessionCount, handedOut, removed, lastCreate, receivedFor>>
extVars == <<loops, env, submitVars, clientVars, pageVars>>
vars == <<variant, storeVars, reqVars, pc, events, loopVars, envVars, threw, extVars,
          gateVars>>

\* ------------------------------------------------------------ events
\* interface SSEEvent; an absent field is its empty value.
Ev(t) == [type |-> t, checkpoint_id |-> "", content |-> << >>, query |-> "",
          urls |-> << >>, error |-> ""]
CheckpointEv(id) == [Ev("checkpoint") EXCEPT !.checkpoint_id = id]
ContentEv(c) == [Ev("content") EXCEPT !.content = c]
SearchStartEv(q) == [Ev("search_start") EXCEPT !.query = q]
SearchResultsEv(u) == [Ev("search_results") EXCEPT !.urls = u]
EndEv == Ev("end")
ErrorEv(e) == [Ev("error") EXCEPT !.error = e]

\* ------------------------------------------------------------- store
Msg(r, c) == [role |-> r, content |-> c]

LastN(s, n) == IF Len(s) <= n THEN s ELSE SubSeq(s, Len(s) - n + 1, Len(s))

getConversationHistory(store, t) == IF t \in DOMAIN store THEN store[t] ELSE << >>

MapSet(store, t, v) == [x \in (DOMAIN store) \cup {t} |-> IF x = t THEN v ELSE store[x]]

\* Mutant of addToConversationHistory: the history is never cut.
addToConversationHistoryUncut(store, t, m) ==
  MapSet(store, t, Append(getConversationHistory(store, t), m))

\* Mutant of addToConversationHistory: slice(50) for slice(-50).
addToConversationHistorySliceHead(store, t, m) ==
  LET history == Append(getConversationHistory(store, t), m)
  IN IF Len(history) > HistoryLimit
       THEN MapSet(store, t, SubSeq(history, HistoryLimit + 1, Len(history)))
       ELSE MapSet(store, t, history)

addToConversationHistory(store, t, m) ==
  LET history == Append(getConversationHistory(store, t), m)
  IN IF Len(history) > HistoryLimit
       THEN MapSet(store, t, LastN(history, HistoryLimit))
       ELSE MapSet(store, t, history)

\* Mutant of clearConversationHistory: conversationStore.clear().
clearConversationHistoryAll(store, t) == [x \in {} |-> << >>]

clearConversationHistory(store, t) == [x \in (DOMAIN store) \ {t} |-> store[x]]

\* A history of n messages left by n \div 2 completed turns.
OldHistory(n) ==
  [i \in 1..n |-> Msg(IF i % 2 = 1 THEN "user" ELSE "assistant", <<HistBase + i>>)]

EmptyStore == [x \in {} |-> << >>]
NoHistory == [t \in ThreadIds |-> << >>]


\* --------------------------------------------------------------- Init
Budget(r, c, ch, se, f, eq) ==
  [requests |-> r, clears |-> c, chunks |-> ch, searches |-> se, fails |-> f,
   emptyQueries |-> eq]

FullBudget ==
  Budget(MaxRequests, MaxClears, MaxChunks, MaxSearches, MaxFailures, MaxEmptyQueries)

\* The locals of a stream function and the agent's state, as start() sets them
\* (the budget is set by the request's action).
ResetStream ==
  /\ searchQuery' = ""
  /\ searchUrls' = << >>
  /\ isProcessingToolCall' = FALSE
  /\ fullResponse' = << >>
  /\ toolCallDetected' = FALSE
  /\ toolCallExecuted' = FALSE
  /\ step' = 1
  /\ phase' = "model"
  /\ textQ' = << >>
  /\ toolCalls' = << >>
  /\ toolResults' = << >>
  /\ toolFeedback' = << >>
  /\ toolTurns' = {}
  /\ failedCalls' = 0
  /\ modelFailed' = FALSE
  /\ generated' = << >>
  /\ threw' = FALSE

InitStream(b) ==
  /\ requests = 0
  /\ pc = "idle"
  /\ checkpointParam = NoId
  /\ threadId = NoId
  /\ message = 0
  /\ events = << >>
  /\ modelMessages = << >>
  /\ storeAtStart = conversationStore
  /\ searchQuery = ""
  /\ searchUrls = << >>
  /\ isProcessingToolCall = FALSE
  /\ fullResponse = << >>
  /\ toolCallDetected = FALSE
  /\ toolCallExecuted = FALSE
  /\ step = 1
  /\ phase = "ended"
  /\ textQ = << >>
  /\ toolCalls = << >>
  /\ toolResults = << >>
  /\ toolFeedback = << >>
  /\ budget = b
  /\ toolTurns = {}
  /\ failedCalls = 0
  /\ modelFailed = FALSE
  /\ generated = << >>
  /\ threw = FALSE

\* A stream slot no request uses.
FreeLoop ==
  [pc |-> "free", threadId |-> NoId, message |-> 0, turn |-> 1, phase |-> "ended",
   emitted |-> 0, fullResponse |-> << >>, cancelled |-> FALSE, saved |-> FALSE,
   lateWork |-> 0, left |-> 0, beforeClear |-> FALSE]

NoLoops == loops = [s \in 1..MaxLoops |-> FreeLoop]

InitGate == request = [authorization |-> [present |-> FALSE, text |-> << >>],
                       message |-> [present |-> FALSE, text |-> << >>],
                       action |-> "none"]
            /\ httpResponse = [status |-> 0, body |-> "none", missingVars |-> << >>]

\* A slot of `submits` no call uses.
IdleCall == [pc |-> "idle", userId |-> "", content |-> 0, history |-> << >>,
             finalContent |-> << >>]

NoCalls ==
  /\ redisData = [k \in {} |-> << >>]
  /\ submits = [c \in 1..MaxCalls |-> IdleCall]
  /\ lastSaved = [u \in {} |-> << >>]

\* A slot of `sends` no call uses, and the message of a call not yet made.
IdleSend == [pc |-> "unused", st |-> [contentBuffer |-> << >>, stages |-> << >>,
                                      query |-> "", urls |-> << >>,
                                      sourcesBuffer |-> << >>],
             wire |-> << >>, conn |-> "none", sent |-> << >>, fed |-> << >>]

NoMessage == [shown |-> FALSE, content |-> << >>, sources |-> << >>, stages |-> << >>,
              query |-> "", urls |-> << >>, isLoading |-> FALSE, error |-> ""]

\* No stream of the page, and the request that goes with a stream.
NoStream == [session |-> 0, delivers |-> NoId]
Fetch(s, c, r) == [session |-> s, checkpoint_id |-> c, receivedFor |-> r]

\* The first visit of the page: nothing is stored.
FirstVisit ==
  /\ localStorage = << >>
  /\ sessions = << >>
  /\ currentSessionId = 0
  /\ checkpointId = NoId
  /\ pageStream = NoStream
  /\ fetched = << >>
  /\ sessionCount = 0
  /\ handedOut = 0
  /\ removed = {}
  /\ lastCreate = [before |-> << >>, after |-> << >>, id |-> 0]
  /\ receivedFor = [s \in 1..MaxSessions |-> NoId]

NoSends ==
  /\ FirstVisit
  /\ sends = [k \in 1..MaxTurns |-> IdleSend]
  /\ aiMessages = [k \in 1..MaxTurns |-> NoMessage]
  /\ isStreaming = FALSE
  /\ closureStreaming = FALSE
  /\ abortControllerRef = 0

\* No page is open.
NoClient == NoSends /\ client = "api" /\ netBudget = 0

InitExt ==
  /\ NoLoops
  /\ InitGate
  /\ NoCalls
  /\ NoClient
  /\ autoDeserialize = TRUE
  /\ env = {"GOOGLE_GENAI_API_KEY", "GOOGLE_API_KEY", "GOOGLE_CSE_ID", "ADMIN_API_KEY",
            "UPSTASH_REDIS_REST_URL", "UPSTASH_REDIS_REST_TOKEN"}

\* The process has served no request yet.
Init ==
  /\ variant \in {"ai", "sse"}
  /\ conversationStore = EmptyStore
  /\ completed = NoHistory
  /\ issued = {}
  /\ usedIds = {}
  /\ InitStream(FullBudget)
  /\ InitExt

\* Thread t1 holds HistoryLimit messages of earlier completed turns of a
\* client that was handed t1.
InitHistory ==
  /\ variant = "ai"
  /\ conversationStore = [t \in {"t1"} |-> OldHistory(HistoryLimit)]
  /\ completed = [NoHistory EXCEPT !["t1"] = OldHistory(HistoryLimit)]
  /\ issued = {"t1"}
  /\ usedIds = {"t1"}
  /\ InitStream(Budget(MaxRequests, MaxClears, MaxChunks, 1, 0, 0))
  /\ InitExt


\* ----------------------------------------------------------- helpers
Min(a, b) == IF a < b THEN a ELSE b

\* The requests for 1..MaxCallsPerStep tool calls the budget b allows.
EmptyCount(calls) == Cardinality({i \in 1..Len(calls) : calls[i] = ""})

CallLists(b) ==
  UNION {{calls \in [1..n -> Queries] : EmptyCount(calls) <= b.emptyQueries} :
           n \in 1..Min(MaxCallsPerStep, b.searches)}

SpendCalls(b, calls) ==
  [b EXCEPT !.searches = @ - Len(calls), !.emptyQueries = @ - EmptyCount(calls)]

Spend(b, what, n) == [b EXCEPT ![what] = @ - n]

\* crypto.randomUUID() / uuidv4(): an id nobody has used.
FreshIds == LET free == {i \in 1..Len(ThreadSeq) : ThreadSeq[i] \notin usedIds}
            IN IF free = {} THEN {}
               ELSE {ThreadSeq[CHOOSE i \in free : \A j \in free : i <= j]}

ToolResult(q, r, e, raw) == [query |-> q, results |-> r, error |-> e, raw |-> raw]

\* ------------------------------------------------------ the handlers
\* The variables validateEnvironment reads, in its order, and the ones
\* redis.ts reads.
RouteConfig == <<"GOOGLE_GENAI_API_KEY", "GOOGLE_API_KEY", "GOOGLE_CSE_ID", "ADMIN_API_KEY">>
RedisConfig == <<"UPSTASH_REDIS_REST_URL", "UPSTASH_REDIS_REST_TOKEN">>
Range(q) == {q[i] : i \in 1..Len(q)}
AllConfig == Range(RouteConfig) \cup Range(RedisConfig)

\* The value of ADMIN_API_KEY when it is set.
adminApiKey == "key"

\* A header or parameter that may be absent; its text is a sequence.
Absent == [present |-> FALSE, text |-> << >>]
Given(t) == [present |-> TRUE, text |-> t]

\* authorization headers: <<scheme, credentials>>.
Authorizations ==
  {Absent, Given(<<"Basic ", "key">>), Given(<<"Bearer ", "key">>),
   Given(<<"Bearer ", "bad">>)}
MessageParams == {Absent, Given(<< >>), Given(<<" ">>), Given(<<"a">>)}
Actions == {"none", "clear"}
Requests == [authorization : Authorizations, message : MessageParams, action : Actions]

Reply(st, b, missing) == [status |-> st, body |-> b, missingVars |-> missing]

\* validateEnvironment: the missing names, in the order of the checks.
validateEnvironment(e) == SelectSeq(RouteConfig, LAMBDA n : n \notin e)

\* Mutant of verifyAuthentication: only the scheme is tested.
verifyAuthenticationSchemeOnly(authHeader, key) ==
  authHeader.present /\ authHeader.text[1] = "Bearer "

verifyAuthentication(authHeader, key) ==
  IF ~authHeader.present \/ authHeader.text[1] # "Bearer " THEN FALSE
  ELSE authHeader.text[2] = key

\* String.prototype.trim on texts over " " and "a".
RECURSIVE trimStart(_)
trimStart(t) == IF t # << >> /\ Head(t) = " " THEN trimStart(Tail(t)) ELSE t
RECURSIVE trimEnd(_)
trimEnd(t) ==
  IF t # << >> /\ t[Len(t)] = " " THEN trimEnd(SubSeq(t, 1, Len(t) - 1)) ELSE t
trim(t) == trimEnd(trimStart(t))

\* !message || message.trim() === ''
MessageMissing(m) == ~m.present \/ m.text = << >> \/ trim(m.text) = << >>

\* Only the handlers of the createAIStream implementation know action=clear.
IsClear(req) == variant = "ai" /\ req.action = "clear"

\* What GET/POST answer to req, up to the call that opens the stream.
Handle(req) ==
  LET missingVars == validateEnvironment(env)
  IN IF Len(missingVars) > 0 THEN Reply(500, "error", missingVars)
     ELSE IF ~verifyAuthentication(req.authorization, adminApiKey)
       THEN Reply(401, "error", << >>)
     ELSE IF IsClear(req) THEN Reply(200, "cleared", << >>)
     ELSE IF MessageMissing(req.message) THEN Reply(400, "error", << >>)
     ELSE Reply(200, "stream", << >>)

\* A request arrives that its handler answers with a body of this kind.
Serve(kind) ==
  \E req \in Requests :
    /\ Handle(req).body = kind
    /\ request' = req
    /\ httpResponse' = Handle(req)

\* -------------------------------------------- variant "ai": requests
\* GET/POST up to createAIStream, and start() up to its first await: the
\* checkpoint event, the history, the call of streamText.
AIChat(param) ==
  /\ variant = "ai"
  /\ pc \in {"idle", "closed"}
  /\ budget.requests > 0
  /\ \E id \in (IF param # NoId THEN {param} ELSE FreshIds) :
       LET isNewConversation == id \notin DOMAIN conversationStore
           history == getConversationHistory(conversationStore, id)
       IN /\ threadId' = id
          /\ events' = IF isNewConversation THEN <<CheckpointEv(id)>> ELSE << >>
          /\ issued' = IF isNewConversation THEN issued \cup {id} ELSE issued
          /\ usedIds' = usedIds \cup {id}
          /\ modelMessages' = history \o <<Msg("user", <<MsgBase + requests + 1>>)>>
          /\ storeAtStart' = conversationStore
  /\ checkpointParam' = param
  /\ message' = MsgBase + requests + 1
  /\ requests' = requests + 1
  /\ pc' = "running"
  /\ ResetStream
  /\ budget' = Spend(budget, "requests", 1)
  /\ UNCHANGED <<variant, conversationStore, completed>>
  /\ Serve("stream")
  /\ UNCHANGED extVars

\* GET/POST with action=clear.  The clear request is now the current request:
\* it opens no stream.
AIClear(param) ==
  /\ variant = "ai"
  /\ pc \in {"idle", "closed"}
  /\ budget.clears > 0
  /\ \E id \in (IF param # NoId THEN {param} ELSE FreshIds) :
       /\ conversationStore' = clearConversationHistory(conversationStore, id)
       /\ completed' = [completed EXCEPT ![id] = << >>]
       /\ usedIds' = usedIds \cup {id}
  /\ budget' = Spend(budget, "clears", 1)
  /\ checkpointParam' = param
  /\ threadId' = NoId
  /\ message' = 0
  /\ modelMessages' = << >>
  /\ storeAtStart' = conversationStore
  /\ events' = << >>
  /\ pc' = "idle"
  /\ ResetStream
  /\ UNCHANGED <<variant, issued, requests>>
  /\ Serve("cleared")
  /\ UNCHANGED extVars

\* ------------------------------------------ variant "ai": the agent
\* The model emits a text delta: it is queued on result.textStream.
AIModelChunk ==
  /\ variant = "ai" /\ pc = "running" /\ phase = "model"
  /\ budget.chunks > 0
  /\ Len(textQ) < MaxQueued
  /\ \E c \in {<<step>>, << >>} :
       /\ textQ' = Append(textQ, c)
       /\ generated' = generated \o c
  /\ budget' = Spend(budget, "chunks", 1)
  /\ UNCHANGED <<variant, storeVars, reqVars, pc, events, loopVars, threw,
                 step, phase, toolCalls, toolResults, toolFeedback, toolTurns, failedCalls, modelFailed>>
  /\ UNCHANGED <<extVars, gateVars>>

\* The model turn ends in a request for one or more tool calls.
AIModelToolCalls ==
  /\ variant = "ai" /\ pc = "running" /\ phase = "model"
  /\ budget.searches > 0
  /\ \E calls \in CallLists(budget) :
       /\ toolCalls' = calls
       /\ budget' = SpendCalls(budget, calls)
  /\ toolResults' = << >>
  /\ toolTurns' = toolTurns \cup {step}
  /\ phase' = "tools"
  /\ UNCHANGED <<variant, storeVars, reqVars, pc, events, loopVars, threw,
                 step, textQ, toolFeedback, failedCalls, modelFailed, generated>>
  /\ UNCHANGED <<extVars, gateVars>>

\* The model turn ends without a tool request.
AIModelFinish ==
  /\ variant = "ai" /\ pc = "running" /\ phase = "model"
  /\ toolCalls' = << >>
  /\ toolResults' = << >>
  /\ phase' = "finish"
  /\ UNCHANGED <<variant, storeVars, reqVars, pc, events, loopVars, threw,
                 step, textQ, toolFeedback, budget, toolTurns, failedCalls, modelFailed, generated>>
  /\ UNCHANGED <<extVars, gateVars>>

\* The model call fails (or times out): result.textStream throws.
AIModelFail ==
  /\ variant = "ai" /\ pc = "running" /\ phase = "model"
  /\ phase' = "failed"
  /\ modelFailed' = TRUE
  /\ UNCHANGED generated
  /\ UNCHANGED <<variant, storeVars, reqVars, pc, events, loopVars, threw,
                 step, textQ, toolCalls, toolResults, toolFeedback, budget, toolTurns,
                 failedCalls>>
  /\ UNCHANGED <<extVars, gateVars>>

\* createGoogleSearchTool.execute on a fetch that answered with items r.
executeOk(q, r) == ToolResult(q, r, "", "object")

\* Mutant of executeFailed: the catch block rethrows.
executeRethrows(q, reason) == ToolResult(q, << >>, reason, "thrown")

\* createGoogleSearchTool.execute on a fetch that timed out, answered with an
\* HTTP error or with no JSON: the catch block.
executeFailed(q, reason) == ToolResult(q, << >>, reason, "object")

\* The SDK runs execute for the next tool call of the turn.
AIToolExecute ==
  /\ variant = "ai" /\ pc = "running" /\ phase = "tools"
  /\ LET q == toolCalls[Len(toolResults) + 1]
     IN \/ /\ \E r \in ResultLists : toolResults' = Append(toolResults, executeOk(q, r))
           /\ UNCHANGED <<budget, failedCalls>>
        \/ /\ budget.fails > 0
           /\ \E reason \in FailReasons :
                toolResults' = Append(toolResults, executeFailed(q, reason))
           /\ budget' = Spend(budget, "fails", 1)
           /\ failedCalls' = failedCalls + 1
  \* an exception that leaves execute is a stream error of the SDK
  /\ phase' = IF toolResults'[Len(toolResults')].raw = "thrown" THEN "failed"
              ELSE IF Len(toolResults') = Len(toolCalls) THEN "finish" ELSE "tools"
  /\ UNCHANGED <<variant, storeVars, reqVars, pc, events, loopVars, threw,
                 step, textQ, toolCalls, toolFeedback, toolTurns, modelFailed, generated>>
  /\ UNCHANGED <<extVars, gateVars>>

\* onStepFinish, first loop: the tool calls of the step.  st holds the
\* locals the callback writes and the events it enqueues.
RECURSIVE onStepFinishCalls(_, _)
onStepFinishCalls(calls, st) ==
  IF calls = << >> THEN st
  ELSE LET q == Head(calls)
           st1 == [st EXCEPT !.searchQuery = q]
           st2 == IF q # ""
                    THEN [st1 EXCEPT !.events = Append(@, SearchStartEv(q)),
                                     !.isProcessingToolCall = TRUE]
                    ELSE st1
       IN onStepFinishCalls(Tail(calls), st2)

\* The URLs of one tool result that are pushed on searchUrls.
ResultUrls(res) == SelectSeq(res.results, LAMBDA u : u # "")

\* onStepFinish, second loop: the tool results of the step.
RECURSIVE onStepFinishResults(_, _)
onStepFinishResults(results, st) ==
  IF results = << >> THEN st
  ELSE LET urls == st.searchUrls \o ResultUrls(Head(results))
           st1 == [st EXCEPT !.searchUrls = urls]
           st2 == IF Len(urls) > 0
                    THEN [st1 EXCEPT !.events = Append(@, SearchResultsEv(urls))]
                    ELSE st1
           st3 == [st2 EXCEPT !.isProcessingToolCall = FALSE]
       IN onStepFinishResults(Tail(results), st3)

\* Mutant of onStepFinish: the tool results are handled before the tool calls.
onStepFinishResultsFirst(calls, results, st) ==
  onStepFinishCalls(calls, onStepFinishResults(results, st))

onStepFinish(calls, results, st) ==
  onStepFinishResults(results, onStepFinishCalls(calls, st))

\* Whether streamText runs another model turn after this one.
ContinueSteps(calls, n) == Len(calls) > 0 /\ n < maxSteps

\* The step is complete: the SDK calls onStepFinish, then starts the next
\* model turn with the tool results, or ends the stream.
AIStepFinish ==
  /\ variant = "ai" /\ pc = "running" /\ phase = "finish"
  /\ LET st == onStepFinish(toolCalls, toolResults,
                  [events |-> events, searchQuery |-> searchQuery,
                   searchUrls |-> searchUrls,
                   isProcessingToolCall |-> isProcessingToolCall])
     IN /\ events' = st.events
        /\ searchQuery' = st.searchQuery
        /\ searchUrls' = st.searchUrls
        /\ isProcessingToolCall' = st.isProcessingToolCall
  /\ toolFeedback' = toolFeedback \o toolResults
  /\ toolCalls' = << >>
  /\ toolResults' = << >>
  /\ IF ContinueSteps(toolCalls, step)
       THEN step' = step + 1 /\ phase' = "model"
       ELSE step' = step /\ phase' = "ended"
  /\ UNCHANGED <<variant, storeVars, reqVars, pc, threw, fullResponse,
                 toolCallDetected, toolCallExecuted, textQ,
                 budget, toolTurns, failedCalls, modelFailed, generated>>
  /\ UNCHANGED <<extVars, gateVars>>

\* ------------------------------------- variant "ai": the stream loop
\* Mutant of ShouldForward: the test of the chunk is dropped.
ShouldForwardAny(processing, chunk) == ~processing

\* Whether the loop forwards a chunk.
ShouldForward(processing, chunk) == ~processing /\ chunk # << >>

\* One iteration of `for await (const chunk of result.textStream)`.
AIReadChunk ==
  /\ variant = "ai" /\ pc = "running"
  /\ textQ # << >>
  /\ LET chunk == Head(textQ)
     IN IF ShouldForward(isProcessingToolCall, chunk)
          THEN /\ fullResponse' = fullResponse \o chunk
               /\ events' = Append(events, ContentEv(chunk))
          ELSE UNCHANGED <<fullResponse, events>>
  /\ textQ' = Tail(textQ)
  /\ UNCHANGED <<variant, storeVars, reqVars, pc, threw, searchQuery, searchUrls,
                 isProcessingToolCall, toolCallDetected, toolCallExecuted, step, phase,
                 toolCalls, toolResults, toolFeedback, budget, toolTurns, failedCalls, modelFailed, generated>>
  /\ UNCHANGED <<extVars, gateVars>>

\* Mutant of SaveTurn: the turns are not saved by the time `end` is enqueued.
SaveTurnLater(store, t, msg, response) == store

\* Mutant of SaveTurn: the assistant turn is saved before the user turn.
SaveTurnAssistantFirst(store, t, msg, response) ==
  addToConversationHistory(addToConversationHistory(store, t, Msg("assistant", response)),
                           t, Msg("user", <<msg>>))

\* Steps 9 and 10 of start(): the two turns are saved.
SaveTurn(store, t, msg, response) ==
  addToConversationHistory(addToConversationHistory(store, t, Msg("user", <<msg>>)),
                           t, Msg("assistant", response))

\* Mutant of StreamExhausted: a failed model call ends the text stream
\* without throwing.
StreamExhaustedOrFailed(ph, q) == ph \in {"ended", "failed"} /\ q = << >>

\* The for-await loop leaves normally: the agent ended and every chunk is read.
StreamExhausted(ph, q) == ph = "ended" /\ q = << >>

\* The for-await loop throws: the agent failed, after the chunks before it.
StreamThrew(ph, q) == ph = "failed" /\ q = << >>

\* The text stream is exhausted: save, `end`, close.
AILoopEnd ==
  /\ variant = "ai" /\ pc = "running"
  /\ StreamExhausted(phase, textQ)
  /\ conversationStore' = SaveTurn(conversationStore, threadId, message, fullResponse)
  /\ completed' = [completed EXCEPT ![threadId] =
                     @ \o <<Msg("user", <<message>>), Msg("assistant", fullResponse)>>]
  /\ events' = Append(events, EndEv)
  /\ pc' = "closed"
  /\ UNCHANGED <<variant, issued, usedIds, reqVars, loopVars, envVars, threw>>
  /\ UNCHANGED <<extVars, gateVars>>

\* Mutant of CatchEvents: the `end` of the try block is enqueued after the
\* catch block as well.
CatchEventsThenEnd(evs, e) == Append(Append(evs, ErrorEv(e)), EndEv)

\* What the catch block of start() enqueues.
CatchEvents(evs, e) == Append(evs, ErrorEv(e))

\* The text stream threw: the catch block.
AILoopCatch ==
  /\ variant = "ai" /\ pc = "running"
  /\ StreamThrew(phase, textQ)
  /\ events' = CatchEvents(events, ModelError)
  /\ threw' = TRUE
  /\ pc' = "closed"
  /\ UNCHANGED <<variant, storeVars, reqVars, loopVars, envVars>>
  /\ UNCHANGED <<extVars, gateVars>>


\* ------------------------------------------- variant "sse": requests
\* GET (lines 756-779) and start() of createSSEStream up to graph.streamEvents.
SSEChat(param) ==
  /\ variant = "sse"
  /\ pc \in {"idle", "closed"}
  /\ budget.requests > 0
  /\ \E id \in (IF param # NoId THEN {param} ELSE FreshIds) :
       LET isNewConversation == param = NoId
       IN /\ threadId' = id
          /\ events' = IF isNewConversation THEN <<CheckpointEv(id)>> ELSE << >>
          /\ issued' = IF isNewConversation THEN issued \cup {id} ELSE issued
          /\ usedIds' = usedIds \cup {id}
  /\ modelMessages' = <<Msg("user", <<MsgBase + requests + 1>>)>>
  /\ storeAtStart' = conversationStore
  /\ checkpointParam' = param
  /\ message' = MsgBase + requests + 1
  /\ requests' = requests + 1
  /\ pc' = "running"
  /\ ResetStream
  /\ budget' = Spend(budget, "requests", 1)
  /\ UNCHANGED <<variant, conversationStore, completed>>
  /\ Serve("stream")
  /\ UNCHANGED extVars

\* ------------------------------- variant "sse": the loop's handlers
\* The events of graph.streamEvents are taken with the names the handlers
\* test: the model's events are named 'model', a tool's end 'tool_node'.
\* st holds the locals of start() and the events enqueued.

\* STEP 3, on_chat_model_stream with chunk.content = chunk.
onChatModelStream(chunk, st) ==
  IF chunk # << >>
    THEN LET shouldStreamContent == ~st.toolCallDetected \/ st.toolCallExecuted
         IN IF shouldStreamContent
              THEN [st EXCEPT !.events = Append(@, ContentEv(chunk))]
              ELSE st
    ELSE st

\* STEP 1, on_chat_model_end of the model node with output.tool_calls = calls.
onChatModelEnd(calls, st) ==
  IF ~st.toolCallDetected /\ Len(calls) > 0
    THEN LET q == calls[1]   \* tool_calls.find: the only tool is google_custom_search
             st1 == [st EXCEPT !.toolCallDetected = TRUE, !.searchQuery = q]
         IN IF q # ""
              THEN [st1 EXCEPT !.events = Append(@, SearchStartEv(q))]
              ELSE st1
    ELSE st

\* The links of a parsed tool output that are pushed on searchUrls.
OutputLinks(out) ==
  IF out.raw = "array" THEN SelectSeq(out.results, LAMBDA u : u # "") ELSE << >>

\* STEP 2, on_tool_end of the tool node with data.output = out.  out.raw is
\* "array" (a JSON array of results), "json" (other JSON), "text" (a string
\* that JSON.parse rejects) or "object" (not a string).
onToolEnd(out, st) ==
  IF st.toolCallDetected
    THEN LET st1 == [st EXCEPT !.toolCallExecuted = TRUE]
         IN IF out.raw \in {"array", "json"}
              THEN LET urls == st1.searchUrls \o OutputLinks(out)
                       st2 == [st1 EXCEPT !.searchUrls = urls]
                   IN IF Len(urls) > 0
                        THEN [st2 EXCEPT !.events = Append(@, SearchResultsEv(urls))]
                        ELSE st2
              ELSE st1
    ELSE st

SSELocals == [events |-> events, searchQuery |-> searchQuery, searchUrls |-> searchUrls,
              toolCallDetected |-> toolCallDetected,
              toolCallExecuted |-> toolCallExecuted]

SetSSELocals(st) ==
  /\ events' = st.events
  /\ searchQuery' = st.searchQuery
  /\ searchUrls' = st.searchUrls
  /\ toolCallDetected' = st.toolCallDetected
  /\ toolCallExecuted' = st.toolCallExecuted

\* toolsRouter on a last message with tool_calls = calls.
toolsRouter(calls) == IF Len(calls) > 0 THEN "tool_node" ELSE "__end__"

\* -------------------------------------- variant "sse": the graph
\* The model node streams a chunk; the loop handles on_chat_model_stream.
SSEModelStream ==
  /\ variant = "sse" /\ pc = "running" /\ phase = "model"
  /\ budget.chunks > 0
  /\ \E c \in {<<step>>, << >>} :
       /\ SetSSELocals(onChatModelStream(c, SSELocals))
       /\ generated' = generated \o c
  /\ budget' = Spend(budget, "chunks", 1)
  /\ UNCHANGED <<variant, storeVars, reqVars, pc, threw, isProcessingToolCall,
                 fullResponse, step, phase, textQ, toolCalls, toolResults, toolFeedback,
                 toolTurns, failedCalls, modelFailed>>
  /\ UNCHANGED <<extVars, gateVars>>

\* modelNode returns a response with the tool calls `calls` (none: << >>);
\* the loop handles on_chat_model_end; toolsRouter picks the next node.
SSEModelEnd(calls) ==
  /\ variant = "sse" /\ pc = "running" /\ phase = "model"
  /\ SetSSELocals(onChatModelEnd(calls, SSELocals))
  /\ toolCalls' = calls
  /\ toolResults' = << >>
  /\ budget' = SpendCalls(budget, calls)
  /\ IF toolsRouter(calls) = "tool_node"
       THEN phase' = "tools" /\ toolTurns' = toolTurns \cup {step}
       ELSE phase' = "ended" /\ toolTurns' = toolTurns
  /\ UNCHANGED <<variant, storeVars, reqVars, pc, threw, isProcessingToolCall,
                 fullResponse, step, textQ, toolFeedback, failedCalls, modelFailed, generated>>
  /\ UNCHANGED <<extVars, gateVars>>

SSEModelToolCalls == \E calls \in CallLists(budget) : SSEModelEnd(calls)

SSEModelFinal == SSEModelEnd(<< >>)

\* llmWithTools.invoke throws: the graph run fails and the stream throws.
SSEModelFail ==
  /\ variant = "sse" /\ pc = "running" /\ phase = "model"
  /\ phase' = "failed"
  /\ modelFailed' = TRUE
  /\ UNCHANGED generated
  /\ UNCHANGED <<variant, storeVars, reqVars, pc, events, loopVars, threw,
                 step, textQ, toolCalls, toolResults, toolFeedback, budget, toolTurns,
                 failedCalls>>
  /\ UNCHANGED <<extVars, gateVars>>

\* toolNode, try branch: the ToolMessage of a search that returned out.
toolNodeOk(q, out) == ToolResult(q, out.results, "", out.raw)

\* toolNode, catch branch: the ToolMessage of a search that threw.
toolNodeCaught(q, reason) == ToolResult(q, << >>, reason, "error")

\* The phase after the tool node handled a call: the edge tool_node -> model.
AfterToolCall(done, total) == IF done = total THEN "model" ELSE "tools"

\* toolNode invokes the search tool for the next call of the last message.
\* A search that returns emits on_tool_end; one that throws emits no
\* on_tool_end and its error becomes the ToolMessage.
SSEToolInvoke ==
  /\ variant = "sse" /\ pc = "running" /\ phase = "tools"
  /\ LET q == toolCalls[Len(toolResults) + 1]
         handled(res) ==
           LET all == Append(toolResults, res)
               next == IF res.raw = "thrown" THEN "failed"
                       ELSE AfterToolCall(Len(all), Len(toolCalls))
           IN /\ phase' = next
              /\ step' = IF next = "model" THEN step + 1 ELSE step
              /\ toolResults' = IF next = "model" THEN << >> ELSE all
              /\ toolFeedback' = IF next = "model" THEN toolFeedback \o all
                                 ELSE toolFeedback
     IN \/ /\ \E out \in {ToolResult(q, r, "", "array") : r \in ResultLists}
                         \cup {ToolResult(q, << >>, "", "text")} :
                /\ handled(toolNodeOk(q, out))
                /\ SetSSELocals(onToolEnd(out, SSELocals))
           /\ UNCHANGED <<budget, failedCalls>>
        \/ /\ budget.fails > 0
           /\ \E reason \in FailReasons : handled(toolNodeCaught(q, reason))
           /\ budget' = Spend(budget, "fails", 1)
           /\ failedCalls' = failedCalls + 1
           /\ UNCHANGED <<events, searchQuery, searchUrls, toolCallDetected,
                          toolCallExecuted>>
  /\ UNCHANGED <<variant, storeVars, reqVars, pc, threw, isProcessingToolCall,
                 fullResponse, textQ, toolCalls, toolTurns, modelFailed, generated>>
  /\ UNCHANGED <<extVars, gateVars>>

\* The event stream is exhausted: `end`, close.
SSELoopEnd ==
  /\ variant = "sse" /\ pc = "running"
  /\ StreamExhausted(phase, << >>)
  /\ events' = Append(events, EndEv)
  /\ pc' = "closed"
  /\ UNCHANGED <<variant, storeVars, reqVars, loopVars, envVars, threw>>
  /\ UNCHANGED <<extVars, gateVars>>

\* The event stream threw: the catch block.
SSELoopCatch ==
  /\ variant = "sse" /\ pc = "running"
  /\ StreamThrew(phase, << >>)
  /\ events' = CatchEvents(events, ModelError)
  /\ threw' = TRUE
  /\ pc' = "closed"
  /\ UNCHANGED <<variant, storeVars, reqVars, loopVars, envVars>>
  /\ UNCHANGED <<extVars, gateVars>>

\* -------------------------------------------- requests turned away
\* GET/POST return a JSON error: 500 from the catch block, 401, or 400.
HandlerRejects ==
  /\ pc \in {"idle", "closed"}
  /\ Serve("error")
  /\ UNCHANGED <<variant, storeVars, reqVars, pc, events, loopVars, envVars, threw, extVars>>

\* ------------------------------------------- overlapping requests
\* Neither handler keeps a record of the streams it has opened, and neither
\* start() registers a cancel() callback or passes an abort signal on: every
\* request runs its own loop, one per slot of `loops`, and a client that goes
\* away only closes the controller of its stream, so that the next
\* controller.enqueue of its loop throws.  A loop is taken at the grain of its
\* awaits; `emitted` counts the events it enqueued.

\* The loop after an enqueue on a cancelled stream threw: control goes to the
\* catch block, whose own enqueue throws again, and start() rejects.
Rejected(l) == [l EXCEPT !.pc = "closed"]

\* The loop after it enqueued n events (n > 0 on a cancelled stream throws).
Enqueued(l, n) ==
  IF n > 0 /\ l.cancelled THEN Rejected(l) ELSE [l EXCEPT !.emitted = @ + n]

\* A model turn or a tool execution begins for loop l.
WorkStarts(l) == IF l.cancelled THEN [l EXCEPT !.lateWork = @ + 1] ELSE l

\* GET/POST and start() up to the first model call, in the first free slot.
LoopStart(s, param) ==
  /\ loops[s].pc = "free"
  /\ \A r \in 1..(s - 1) : loops[r].pc # "free"
  /\ \E id \in (IF param # NoId THEN {param} ELSE FreshIds) :
       LET isNewConversation == IF variant = "ai"
                                  THEN id \notin DOMAIN conversationStore
                                  ELSE param = NoId
       IN /\ loops' = [loops EXCEPT ![s] =
                         [FreeLoop EXCEPT !.pc = "running", !.threadId = id,
                                          !.message = MsgBase + requests + 1,
                                          !.phase = "model",
                                          !.emitted = IF isNewConversation THEN 1 ELSE 0,
                                          !.left = MaxLoopSteps]]
          /\ issued' = IF isNewConversation THEN issued \cup {id} ELSE issued
          /\ usedIds' = usedIds \cup {id}
  /\ requests' = requests + 1
  /\ UNCHANGED <<variant, conversationStore, completed, streamVars, env, gateVars,
                 submitVars, clientVars, pageVars>>

\* The client of the stream disconnects or aborts.
ClientCancel(s) ==
  /\ loops[s].pc = "running"
  /\ ~loops[s].cancelled
  /\ loops' = [loops EXCEPT ![s].cancelled = TRUE]
  /\ UNCHANGED <<variant, storeVars, requests, streamVars, env, gateVars,
                 submitVars, clientVars, pageVars>>

\* The model streams a chunk and the loop reads it; `forwarded` is whether
\* the loop's condition lets it through to a content event.
LoopChunk(s) ==
  /\ loops[s].pc = "running" /\ loops[s].phase = "model"
  /\ loops[s].left > 0
  /\ \E forwarded \in BOOLEAN :
       LET l == [loops[s] EXCEPT !.left = @ - 1]
       IN loops' = [loops EXCEPT ![s] =
            IF forwarded
              THEN Enqueued([l EXCEPT !.fullResponse = Append(@, l.turn)], 1)
              ELSE l]
  /\ UNCHANGED <<variant, storeVars, requests, streamVars, env, gateVars,
                 submitVars, clientVars, pageVars>>

\* The model turn ends in a tool request and the tool execution begins.
\* createSSEStream handles on_chat_model_end first, which enqueues
\* search_start for the first tool call of the stream.
LoopToolRequest(s) ==
  /\ loops[s].pc = "running" /\ loops[s].phase = "model"
  /\ loops[s].left > 0
  /\ \E enq \in (IF variant = "sse" THEN {0, 1} ELSE {0}) :
       LET l == Enqueued([loops[s] EXCEPT !.left = @ - 1], enq)
       IN loops' = [loops EXCEPT ![s] =
            IF l.pc = "closed" THEN l ELSE WorkStarts([l EXCEPT !.phase = "tool"])]
  /\ UNCHANGED <<variant, storeVars, requests, streamVars, env, gateVars,
                 submitVars, clientVars, pageVars>>

\* The tool returns.  onStepFinish (createAIStream) or the on_tool_end
\* handler (createSSEStream) enqueues enq events, then the next model turn
\* begins.  An enqueue that throws inside onStepFinish is an error inside the
\* SDK: it either fails the text stream or is dropped.
LoopToolDone(s) ==
  /\ loops[s].pc = "running" /\ loops[s].phase = "tool"
  /\ \E enq \in {0, 1} :
       LET l == loops[s]
           next == WorkStarts([l EXCEPT !.phase = "model", !.turn = @ + 1])
       IN IF enq > 0 /\ l.cancelled
            THEN IF variant = "sse"
                   THEN loops' = [loops EXCEPT ![s] = Rejected(l)]
                   ELSE \/ loops' = [loops EXCEPT ![s].phase = "failed"]
                        \/ loops' = [loops EXCEPT ![s] = next]
            ELSE loops' = [loops EXCEPT ![s] = Enqueued(next, enq)]
  /\ UNCHANGED <<variant, storeVars, requests, streamVars, env, gateVars,
                 submitVars, clientVars, pageVars>>

\* The model turn ends without a tool request: the stream of the loop ends.
LoopModelEnd(s) ==
  /\ loops[s].pc = "running" /\ loops[s].phase = "model"
  /\ loops' = [loops EXCEPT ![s].phase = "ended"]
  /\ UNCHANGED <<variant, storeVars, requests, streamVars, env, gateVars,
                 submitVars, clientVars, pageVars>>

\* The model call fails: the stream of the loop throws.
LoopModelFail(s) ==
  /\ loops[s].pc = "running" /\ loops[s].phase = "model"
  /\ loops' = [loops EXCEPT ![s].phase = "failed"]
  /\ UNCHANGED <<variant, storeVars, requests, streamVars, env, gateVars,
                 submitVars, clientVars, pageVars>>

\* After the for-await loop: createAIStream saves the two turns, and both
\* enqueue `end` and close.
LoopEnd(s) ==
  /\ loops[s].pc = "running" /\ loops[s].phase = "ended"
  /\ LET l == loops[s]
         saves == variant = "ai"
     IN /\ conversationStore' =
             IF saves THEN SaveTurn(conversationStore, l.threadId, l.message, l.fullResponse)
             ELSE conversationStore
        /\ completed' =
             IF saves
               THEN [completed EXCEPT ![l.threadId] =
                       @ \o <<Msg("user", <<l.message>>), Msg("assistant", l.fullResponse)>>]
               ELSE completed
        /\ loops' = [loops EXCEPT ![s] =
                       [Enqueued([l EXCEPT !.saved = saves], 1) EXCEPT !.pc = "closed"]]
  /\ UNCHANGED <<variant, issued, usedIds, requests, streamVars, env, gateVars,
                 submitVars, clientVars, pageVars>>

\* The catch block of start(): `error`, close.
LoopCatch(s) ==
  /\ loops[s].pc = "running" /\ loops[s].phase = "failed"
  /\ loops' = [loops EXCEPT ![s] = [Enqueued(loops[s], 1) EXCEPT !.pc = "closed"]]
  /\ UNCHANGED <<variant, storeVars, requests, streamVars, env, gateVars,
                 submitVars, clientVars, pageVars>>

\* ------------------------------------------------- submitMessage
\* src/app/actions.tsx: the server action and its Redis history.
Users == {"u1", "u2"}

\* lib/database/redis.ts: the client exists when both variables are set.
redis == IF Range(RedisConfig) \subseteq env THEN "client" ELSE "null"

historyKey(userId) == <<"chat_history", userId>>

\* A JSON text is told apart from the value it encodes.
JSONstringify(v) == [kind |-> "text", v |-> v]
JSONparse(d) == IF d.kind = "text" THEN [ok |-> TRUE, v |-> d.v]
                ELSE [ok |-> FALSE, v |-> << >>]   \* SyntaxError

\* redis.get: null, the stored string, or the value it parses to.
redisGet(data, key) ==
  IF key \notin DOMAIN data THEN [kind |-> "null", v |-> << >>]
  ELSE IF autoDeserialize THEN [kind |-> "value", v |-> data[key].v]
  ELSE data[key]

saveChatHistory(data, userId, history) ==
  IF redis = "null" THEN data
  ELSE MapSet(data, historyKey(userId), JSONstringify(history))

loadChatHistory(data, userId) ==
  IF redis = "null" THEN << >>
  ELSE LET d == redisGet(data, historyKey(userId))
       IN IF d.kind = "null" THEN << >>
          ELSE IF JSONparse(d).ok THEN JSONparse(d).v
          ELSE << >>                               \* the catch block

\* newHistory of submitMessage.
newHistory(history, content, finalContent) ==
  history \o <<Msg("user", <<content>>), Msg("assistant", finalContent)>>

\* submitMessage up to aiModel.generate: the history is loaded.
SubmitLoad(c, u) ==
  /\ submits[c].pc = "idle"
  /\ \A b \in 1..(c - 1) : submits[b].pc # "idle"
  /\ submits' = [submits EXCEPT ![c] =
                 [IdleCall EXCEPT !.pc = "streaming", !.userId = u,
                                  !.content = MsgBase + c,
                                  !.history = loadChatHistory(redisData, u)]]
  /\ UNCHANGED <<variant, storeVars, requests, streamVars, loops, env, gateVars, clientVars, pageVars,
                 redisData, autoDeserialize, lastSaved>>

\* One text chunk of result.stream.
SubmitChunk(c) ==
  /\ submits[c].pc = "streaming"
  /\ Len(submits[c].finalContent) < MaxTextChunks
  /\ submits' = [submits EXCEPT ![c].finalContent = Append(@, c)]
  /\ UNCHANGED <<variant, storeVars, requests, streamVars, loops, env, gateVars, clientVars, pageVars,
                 redisData, autoDeserialize, lastSaved>>

\* The stream is exhausted: newHistory is built and saved.
SubmitDone(c) ==
  /\ submits[c].pc = "streaming"
  /\ LET h == newHistory(submits[c].history, submits[c].content, submits[c].finalContent)
     IN /\ redisData' = saveChatHistory(redisData, submits[c].userId, h)
        /\ lastSaved' = MapSet(lastSaved, submits[c].userId, h)
  /\ submits' = [submits EXCEPT ![c].pc = "done"]
  /\ UNCHANGED <<variant, storeVars, requests, streamVars, loops, env, gateVars, clientVars, pageVars,
                 autoDeserialize>>

\* aiModel.generate or the stream throws: the catch block saves nothing.
SubmitFail(c) ==
  /\ submits[c].pc = "streaming"
  /\ submits' = [submits EXCEPT ![c].pc = "failed"]
  /\ UNCHANGED <<variant, storeVars, requests, streamVars, loops, env, gateVars, clientVars, pageVars,
                 redisData, autoDeserialize, lastSaved>>

\* ------------------------------------------- the client: the wire
\* The hooks that read the stream: "lib" is useChatStream of
\* src/lib/useChatStream.ts, "api" the useChatStream of part_002 (lines
\* 1-302) that calls /api/chat, "streams" the one of src/lib/useChatStreams.ts,
\* "chat" is useChat of part_003, which reads newline-delimited JSON.
Clients == {"lib", "api", "streams", "chat"}

\* A whitespace character of a text, and the text of a line that is not JSON
\* when it is appended to a text.
Blank == 0
RawText == 999

\* The body of a response is a sequence of pieces.  formatSSE writes a frame
\* as `data: <json>\n\n`; a read may end after any piece, so a frame is two
\* pieces, the second of which does not start with `data:`.
Piece(p, e) == [part |-> p, ev |-> e]
NL == Piece("nl", Ev("none"))
\* A line `data: {` that JSON.parse rejects.
Malformed == Piece("malformed", Ev("none"))

Serialize(c, e) ==
  IF c = "chat" THEN <<Piece("head", e), Piece("tail", e), NL>>
  ELSE <<Piece("head", e), Piece("tail", e), NL, NL>>

SerializeMalformed(c) == IF c = "chat" THEN <<Malformed, NL>> ELSE <<Malformed, NL, NL>>

FrameLen(c) == IF c = "chat" THEN 3 ELSE 4

\* chunk.split('\n'), without the empty strings.
RECURSIVE SplitLines(_, _)
SplitLines(chunk, cur) ==
  IF chunk = << >> THEN (IF cur = << >> THEN << >> ELSE <<cur>>)
  ELSE IF Head(chunk) = NL
    THEN (IF cur = << >> THEN << >> ELSE <<cur>>) \o SplitLines(Tail(chunk), << >>)
    ELSE SplitLines(Tail(chunk), Append(cur, Head(chunk)))

\* line.startsWith('data:')
StartsWithData(c, line) == c # "chat" /\ line[1].part \in {"head", "malformed"}

\* JSON.parse of the line (after `data:` where the hook strips it) succeeds.
Parses(line) == Len(line) = 2 /\ line[1].part = "head" /\ line[2].part = "tail"
                  /\ line[1].ev = line[2].ev

\* content.trim() is the empty string.
TrimIsEmpty(t) == \A i \in 1..Len(t) : t[i] = Blank

\* ---------------------------------------- the client: the reducer
\* The locals of sendMessage / send that the loop folds the events into.
FreshLocals == [contentBuffer |-> << >>, stages |-> << >>, query |-> "",
                urls |-> << >>, sourcesBuffer |-> << >>]

\* Mutant of ReducerStart: the locals start from the last message shown.
ReducerStartFromLast(last) ==
  [contentBuffer |-> last.content, stages |-> last.stages, query |-> last.query,
   urls |-> last.urls, sourcesBuffer |-> last.sources]

\* The declarations before the read loop; `last` is the message the session
\* showed last.
ReducerStart(last) == FreshLocals

\* Mutant of addStage: the stage is pushed without the Set.
addStagePush(stages, s) == Append(stages, s)

\* [...new Set([...searchInfo.stages, s])]
addStage(stages, s) ==
  IF \E i \in 1..Len(stages) : stages[i] = s THEN stages ELSE Append(stages, s)

\* The switch on event.type.  Every hook but "chat" adds a content text only
\* when it has a character that is not whitespace.
applyEvent(c, e, st) ==
  CASE e.type = "content" ->
         IF c = "chat" \/ ~TrimIsEmpty(e.content)
           THEN [st EXCEPT !.contentBuffer = @ \o e.content]
           ELSE st
    [] e.type = "search_start" ->
         [st EXCEPT !.stages = addStage(@, "searching"),
                    !.query = IF e.query # "" THEN e.query ELSE @]
    [] e.type = "search_results" ->
         LET st1 == [st EXCEPT !.stages = addStage(@, "reading"), !.urls = e.urls]
         IN IF c \in {"api", "streams"} THEN [st1 EXCEPT !.sourcesBuffer = e.urls] ELSE st1
    [] e.type = "search_error" ->
         IF c \in {"lib", "chat"} THEN [st EXCEPT !.stages = addStage(@, "reading")] ELSE st
    [] e.type = "end" -> [st EXCEPT !.stages = addStage(@, "writing")]
    \* "error": "api" throws inside the try block of the line, whose catch
    \* block swallows it; "streams" logs it; the others have no case for it.
    [] OTHER -> st

\* The body of `for (const line of lines)`.
processLine(c, line, st) ==
  IF c = "chat"
    THEN IF Parses(line) THEN applyEvent(c, line[1].ev, st)
         ELSE [st EXCEPT !.contentBuffer = Append(@, RawText)]
  ELSE IF StartsWithData(c, line)
    THEN IF Parses(line) THEN applyEvent(c, line[1].ev, st) ELSE st
  \* a line without `data:` is never JSON here
  ELSE st

RECURSIVE processLines(_, _, _)
processLines(c, lines, st) ==
  IF lines = << >> THEN st
  ELSE processLines(c, Tail(lines), processLine(c, Head(lines), st))

\* One iteration of the read loop on a chunk.
processChunk(c, chunk, st) == processLines(c, SplitLines(chunk, << >>), st)

\* ------------------------------------------ the client: the hook
\* What every client action leaves alone.
ServerVars == <<variant, storeVars, reqVars, pc, events, loopVars, envVars, threw,
                loops, env, submitVars, gateVars, pageVars>>

\* The assistant placeholder sendMessage adds.
Placeholder == [NoMessage EXCEPT !.shown = TRUE, !.isLoading = TRUE]

\* updateSessionMessage(sessionId, aiMessageId, { content, sources, searchInfo })
Shown(m, st) ==
  [m EXCEPT !.content = st.contentBuffer, !.sources = st.sourcesBuffer,
            !.stages = st.stages, !.query = st.query, !.urls = st.urls]

\* The literal texts of the catch blocks.
SorryText == "Sorry, I encountered an error. Please try again."
ErrorOccurredText == <<998>>

\* The catch block on an error that is not an AbortError.
CatchShown(c, m) ==
  IF c = "chat"
    THEN [m EXCEPT !.isLoading = FALSE,
                   !.content = IF @ # << >> THEN @ ELSE ErrorOccurredText]
    ELSE [m EXCEPT !.content = << >>, !.error = SorryText, !.isLoading = FALSE]

\* The slot of the next call.
NextSend == Cardinality({k \in 1..MaxTurns : sends[k].pc # "unused"}) + 1

\* The message the session showed last when call k started.
LastShown(k) == IF k > 1 THEN aiMessages[k - 1] ELSE Placeholder

\* finally { setIsStreaming(false); abortControllerRef.current = null }
Finally ==
  /\ isStreaming' = FALSE
  /\ abortControllerRef' = IF client = "chat" THEN abortControllerRef ELSE 0

\* sendMessage(content) / send(text) up to `await fetch`.  The guard reads
\* the isStreaming of the render that created the callback; useChat has no
\* guard and aborts nothing.
SendMessage ==
  /\ NextSend <= MaxTurns
  /\ client = "chat" \/ ~closureStreaming
  /\ LET k == NextSend
         old == abortControllerRef
         aborts == client # "chat" /\ old # 0
     IN /\ aiMessages' = [aiMessages EXCEPT ![k] = Placeholder]
        /\ sends' = [j \in 1..MaxTurns |->
                       IF j = k THEN [IdleSend EXCEPT !.pc = "fetching"]
                       ELSE IF aborts /\ j = old
                         THEN [sends[j] EXCEPT !.pc = "aborted", !.conn = "none",
                                               !.wire = << >>]
                       ELSE sends[j]]
        /\ abortControllerRef' = k
  /\ isStreaming' = TRUE
  /\ UNCHANGED <<client, closureStreaming, netBudget, ServerVars>>

\* React renders the page again: the callback is created anew.
Render ==
  /\ closureStreaming # isStreaming
  /\ closureStreaming' = isStreaming
  /\ UNCHANGED <<client, sends, aiMessages, isStreaming, abortControllerRef, netBudget,
                 ServerVars>>

\* fetch resolves with a body: the locals of the read loop are declared.
FetchOk(k) ==
  /\ sends[k].pc = "fetching"
  /\ sends' = [sends EXCEPT ![k].pc = "reading", ![k].conn = "open",
                            ![k].st = ReducerStart(LastShown(k))]
  /\ UNCHANGED <<client, aiMessages, isStreaming, closureStreaming, abortControllerRef,
                 netBudget, ServerVars>>

\* fetch rejects, or resolves with !response.ok or without a body.
FetchFails(k) ==
  /\ sends[k].pc = "fetching"
  /\ sends' = [sends EXCEPT ![k].pc = "failed"]
  /\ aiMessages' = [aiMessages EXCEPT ![k] = CatchShown(client, @)]
  /\ Finally
  /\ UNCHANGED <<client, closureStreaming, netBudget, ServerVars>>

\* The server enqueues a frame and the network carries it.
Carry(k, e, pieces) ==
  /\ sends[k].pc = "reading" /\ sends[k].conn = "open"
  /\ netBudget > 0
  /\ sends' = [sends EXCEPT ![k].wire = @ \o pieces, ![k].sent = Append(@, e)]
  /\ netBudget' = netBudget - 1
  /\ UNCHANGED <<client, aiMessages, isStreaming, closureStreaming, abortControllerRef,
                 ServerVars>>

\* The frames a server may send, and a search_error frame, which StreamEvent
\* of part_003 declares.
ClientFrames ==
  {ContentEv(<<1>>), ContentEv(<<Blank>>), ContentEv(<< >>), SearchStartEv("q1"),
   SearchResultsEv(<<"u1", "u2">>), Ev("search_error"), EndEv, ErrorEv(ModelError)}

NetWrite(k) == \E e \in ClientFrames : Carry(k, e, Serialize(client, e))

NetWriteMalformed(k) == Carry(k, Ev("malformed"), SerializeMalformed(client))

\* controller.close() on the server: the body ends after what is in flight.
NetClose(k) ==
  /\ sends[k].pc = "reading" /\ sends[k].conn = "open"
  /\ sends' = [sends EXCEPT ![k].conn = "closed"]
  /\ UNCHANGED <<client, aiMessages, isStreaming, closureStreaming, abortControllerRef,
                 netBudget, ServerVars>>

\* The connection breaks: the next reader.read() rejects.
NetDrop(k) ==
  /\ sends[k].pc = "reading" /\ sends[k].conn = "open"
  /\ sends' = [sends EXCEPT ![k].conn = "dropped", ![k].wire = << >>]
  /\ UNCHANGED <<client, aiMessages, isStreaming, closureStreaming, abortControllerRef,
                 netBudget, ServerVars>>

\* reader.read() resolves with the first n pieces in flight: one iteration of
\* the read loop.
ClientRead(k, n) ==
  /\ sends[k].pc = "reading" /\ sends[k].conn \in {"open", "closed"}
  /\ n \in 1..Len(sends[k].wire)
  /\ LET chunk == SubSeq(sends[k].wire, 1, n)
         st == processChunk(client, chunk, sends[k].st)
     IN /\ sends' = [sends EXCEPT ![k].st = st,
                                  ![k].wire = SubSeq(@, n + 1, Len(@)),
                                  ![k].fed = @ \o SplitLines(chunk, << >>)]
        /\ aiMessages' = [aiMessages EXCEPT ![k] = Shown(@, st)]
  /\ UNCHANGED <<client, isStreaming, closureStreaming, abortControllerRef, netBudget,
                 ServerVars>>

\* reader.read() resolves with done: "Mark as complete", then finally.
ClientDone(k) ==
  /\ sends[k].pc = "reading" /\ sends[k].conn = "closed" /\ sends[k].wire = << >>
  /\ sends' = [sends EXCEPT ![k].pc = "completed"]
  /\ aiMessages' = [aiMessages EXCEPT ![k].isLoading = FALSE]
  /\ Finally
  /\ UNCHANGED <<client, closureStreaming, netBudget, ServerVars>>

\* reader.read() rejects with a network error: the catch block, then finally.
ClientCatch(k) ==
  /\ sends[k].pc = "reading" /\ sends[k].conn = "dropped"
  /\ sends' = [sends EXCEPT ![k].pc = "failed"]
  /\ aiMessages' = [aiMessages EXCEPT ![k] = CatchShown(client, @)]
  /\ Finally
  /\ UNCHANGED <<client, closureStreaming, netBudget, ServerVars>>

\* The frames of evs as formatSSE writes them.
RECURSIVE SerializeAll(_, _)
SerializeAll(c, evs) ==
  IF evs = << >> THEN << >> ELSE Serialize(c, Head(evs)) \o SerializeAll(c, Tail(evs))

\* The body of the response to the request the server has served: every
\* event of its stream, then the close.
Relay(k) ==
  /\ sends[k].pc = "reading" /\ sends[k].conn = "open"
  /\ pc = "closed" /\ k = requests
  /\ sends[k].sent = << >>
  /\ sends' = [sends EXCEPT ![k].wire = SerializeAll(client, events),
                            ![k].sent = events, ![k].conn = "closed"]
  /\ UNCHANGED <<client, aiMessages, isStreaming, closureStreaming, abortControllerRef,
                 netBudget, ServerVars>>

\* Mutant of formatSSE: the frame has no blank line after it.
formatSSENoBlankLine(e) == <<Piece("head", e), Piece("tail", e)>>

\* formatSSE(event): `data: ${JSON.stringify(event)}\n\n`
formatSSE(e) == <<Piece("head", e), Piece("tail", e), NL, NL>>

\* The chunks controller.enqueue has put on the stream of the request that
\* the reader of call k has not pulled yet: the queue of the ReadableStream.
Queued(k) == SubSeq(events, Len(sends[k].sent) + 1, Len(events))

\* The body of the response hands the oldest chunk of the queue to the
\* network, whenever the reader gets to it.
Pull(k) ==
  /\ sends[k].pc = "reading" /\ sends[k].conn = "open"
  /\ pc \in {"running", "closed"} /\ k = requests
  /\ Queued(k) # << >>
  /\ sends' = [sends EXCEPT ![k].wire = @ \o formatSSE(Head(Queued(k))),
                            ![k].sent = Append(@, Head(Queued(k)))]
  /\ UNCHANGED <<client, aiMessages, isStreaming, closureStreaming, abortControllerRef,
                 netBudget, ServerVars>>

\* controller.close(): the body ends once the queue is empty.
PullEnd(k) ==
  /\ sends[k].pc = "reading" /\ sends[k].conn = "open"
  /\ pc = "closed" /\ k = requests
  /\ Queued(k) = << >>
  /\ sends' = [sends EXCEPT ![k].conn = "closed"]
  /\ UNCHANGED <<client, aiMessages, isStreaming, closureStreaming, abortControllerRef,
                 netBudget, ServerVars>>

\* The await of an aborted call rejects with an AbortError: the catch block
\* returns, then finally.
AbortCaught(k) ==
  /\ sends[k].pc = "aborted"
  /\ sends' = [sends EXCEPT ![k].pc = "returned"]
  /\ Finally
  /\ UNCHANGED <<client, aiMessages, closureStreaming, netBudget, ServerVars>>

\* ------------------------------------- the client: the sessions
\* The page's sessions are numbered as they are created (their id is
\* Date.now()); of a session only its id is kept.  The hooks "lib", "api"
\* and "streams" share this code; only "api" and "streams" hold a
\* checkpointId.  The callbacks read `sessions` and `checkpointId` as the
\* last render left them, and the page renders between two actions here.
NotPage == <<variant, storeVars, reqVars, pc, events, loopVars, envVars, threw,
             loops, env, submitVars, gateVars, clientVars>>

HoldsCheckpoint == client \in {"api", "streams"}

\* sessions.filter(s => s.id !== sessionId)
Without(list, id) == SelectSeq(list, LAMBDA x : x # id)

\* The body of createNewChat on the item `stored`: a new session is added to
\* the hook's list, and the hook's list with it is what is saved.
createNewChat(stored) ==
  LET id == sessionCount + 1
  IN /\ sessions' = Append(sessions, id)
     /\ localStorage' = Append(sessions, id)
     /\ currentSessionId' = id
     /\ checkpointId' = IF HoldsCheckpoint THEN NoId ELSE checkpointId
     /\ sessionCount' = id
     /\ lastCreate' = [before |-> stored, after |-> Append(sessions, id), id |-> id]

\* The user clicks "New chat".
PageNewChat ==
  /\ sessionCount < MaxSessions
  /\ createNewChat(localStorage)
  /\ UNCHANGED <<pageStream, fetched, handedOut, removed, receivedFor, NotPage>>

\* The user picks a session of the sidebar: selectSession.
PageSelect(id) ==
  /\ \E i \in 1..Len(localStorage) : localStorage[i] = id
  /\ currentSessionId' = id
  /\ checkpointId' = IF HoldsCheckpoint THEN NoId ELSE checkpointId
  /\ UNCHANGED <<localStorage, sessions, pageStream, fetched, sessionCount, handedOut,
                 removed, lastCreate, receivedFor, NotPage>>

\* confirmDeleteSession of the sidebar: deleteSession(id), and onNewChat()
\* when the session was the current one.
PageDelete(id) ==
  /\ \E i \in 1..Len(localStorage) : localStorage[i] = id
  /\ removed' = removed \cup {id}
  /\ IF currentSessionId = id
       THEN /\ sessionCount < MaxSessions
            /\ createNewChat(Without(localStorage, id))
       ELSE /\ localStorage' = Without(localStorage, id)
            /\ UNCHANGED <<sessions, currentSessionId, checkpointId, sessionCount,
                           lastCreate>>
  /\ UNCHANGED <<pageStream, fetched, handedOut, receivedFor, NotPage>>

\* handleClearAll of the sidebar: clearAllSessions(), then onNewChat().
PageClearAll ==
  /\ localStorage # << >>
  /\ sessionCount < MaxSessions
  /\ removed' = removed \cup {localStorage[i] : i \in 1..Len(localStorage)}
  /\ createNewChat(<< >>)
  /\ UNCHANGED <<pageStream, fetched, handedOut, receivedFor, NotPage>>

\* sendMessage up to fetch.  Without a current session it creates one and
\* saves the hook's list with it; then the two messages are added to the
\* stored session and the hook's list is read again from the item.  The
\* server puts a checkpoint event on the stream of a request without
\* checkpoint_id, and may put one on the stream of a request with it.
PageSend ==
  /\ pageStream = NoStream
  /\ Len(fetched) < MaxFetches
  /\ LET creates == currentSessionId = 0
         id == IF creates THEN sessionCount + 1 ELSE currentSessionId
         stored == IF creates THEN Append(sessions, id) ELSE localStorage
         cp == IF HoldsCheckpoint THEN checkpointId ELSE NoId
     IN /\ creates => sessionCount < MaxSessions
        /\ localStorage' = stored
        /\ sessions' = stored
        /\ currentSessionId' = id
        /\ sessionCount' = IF creates THEN id ELSE sessionCount
        /\ checkpointId' = IF creates /\ HoldsCheckpoint THEN NoId ELSE checkpointId
        /\ fetched' = Append(fetched, Fetch(id, cp, receivedFor))
        /\ \/ /\ HoldsCheckpoint /\ cp = NoId /\ handedOut < Len(ThreadSeq)
              /\ pageStream' = [session |-> id, delivers |-> ThreadSeq[handedOut + 1]]
              /\ handedOut' = handedOut + 1
           \/ /\ HoldsCheckpoint /\ cp # NoId
              /\ pageStream' = [session |-> id, delivers |-> cp]
              /\ UNCHANGED handedOut
           \/ /\ ~HoldsCheckpoint \/ cp # NoId
              /\ pageStream' = [session |-> id, delivers |-> NoId]
              /\ UNCHANGED handedOut
  /\ UNCHANGED <<removed, lastCreate, receivedFor, NotPage>>

\* The read loop handles the checkpoint event of the stream, then shows the
\* message and reads the hook's list again from the item.
PageCheckpoint ==
  /\ pageStream.session # 0
  /\ pageStream.delivers # NoId
  /\ checkpointId' = pageStream.delivers
  /\ receivedFor' = [receivedFor EXCEPT ![pageStream.session] = pageStream.delivers]
  /\ pageStream' = [pageStream EXCEPT !.delivers = NoId]
  /\ sessions' = localStorage
  /\ UNCHANGED <<localStorage, currentSessionId, fetched, sessionCount, handedOut, removed,
                 lastCreate, NotPage>>

\* The stream ends, normally or not: the hook's list is read again from the
\* item, and finally runs.
PageStreamEnds ==
  /\ pageStream.session # 0
  /\ pageStream' = NoStream
  /\ sessions' = localStorage
  /\ UNCHANGED <<localStorage, currentSessionId, checkpointId, fetched, sessionCount,
                 handedOut, removed, lastCreate, receivedFor, NotPage>>

\* --------------------------------------------------- specifications
\* The checkpoint_id of a request: absent, or an id a client has seen.
Params == issued \cup {NoId}

NextAI ==
  \/ \E p \in Params : AIChat(p)
  \/ \E p \in Params : AIClear(p)
  \/ AIModelChunk
  \/ AIModelToolCalls
  \/ AIModelFinish
  \/ AIModelFail
  \/ AIToolExecute
  \/ AIStepFinish
  \/ AIReadChunk
  \/ AILoopEnd
  \/ AILoopCatch

NextSSE ==
  \/ \E p \in Params : SSEChat(p)
  \/ SSEModelStream
  \/ SSEModelToolCalls
  \/ SSEModelFinal
  \/ SSEModelFail
  \/ SSEToolInvoke
  \/ SSELoopEnd
  \/ SSELoopCatch

Next == NextAI \/ NextSSE

Spec == Init /\ [][Next]_vars

\* createAIStream on a process that holds a long conversation.
SpecHistory == InitHistory /\ [][NextAI]_vars

\* createAIStream with a model that may request a tool in every turn that
\* maxSteps allows.
InitStepLimit ==
  /\ variant = "ai"
  /\ conversationStore = EmptyStore
  /\ completed = NoHistory
  /\ issued = {}
  /\ usedIds = {}
  /\ InitStream(Budget(1, 0, 1, maxSteps, 0, 0))
  /\ InitExt

NextStepLimit ==
  \/ \E p \in Params : AIChat(p)
  \/ AIModelChunk
  \/ AIModelToolCalls
  \/ AIModelFinish
  \/ AIModelFail
  \/ AIToolExecute
  \/ AIStepFinish
  \/ AIReadChunk
  \/ AILoopEnd
  \/ AILoopCatch

SpecStepLimit == InitStepLimit /\ [][NextStepLimit]_vars

\* createAIStream on a runtime that runs every continuation of start() and
\* of the SDK, with a search whose fetch is aborted after 8000 ms, so that
\* execute always returns.  streamText is called without a timeout or an
\* abort signal: nothing obliges the model to answer.
InitAILive ==
  /\ variant = "ai"
  /\ conversationStore = EmptyStore
  /\ completed = NoHistory
  /\ issued = {}
  /\ usedIds = {}
  /\ InitStream(Budget(1, 0, 1, 2, 1, 0))
  /\ InitExt

AIFairness ==
  /\ WF_vars(AIToolExecute)
  /\ WF_vars(AIStepFinish)
  /\ WF_vars(AIReadChunk)
  /\ WF_vars(AILoopEnd)
  /\ WF_vars(AILoopCatch)

SpecAILive == InitAILive /\ [][NextStepLimit]_vars /\ AIFairness

\* Any process environment, any request.
InitGateSpec ==
  /\ variant \in {"ai", "sse"}
  /\ conversationStore = EmptyStore
  /\ completed = NoHistory
  /\ issued = {}
  /\ usedIds = {}
  /\ InitStream(Budget(MaxRequests, MaxClears, 1, 1, 0, 0))
  /\ NoLoops
  /\ InitGate
  /\ NoCalls
  /\ NoClient
  /\ autoDeserialize = TRUE
  /\ env \in SUBSET AllConfig

SpecGate == InitGateSpec /\ [][Next \/ HandlerRejects]_vars

\* submitMessage, with or without the Redis variables, with either client.
InitSubmit ==
  /\ variant = "ai"
  /\ conversationStore = EmptyStore
  /\ completed = NoHistory
  /\ issued = {}
  /\ usedIds = {}
  /\ InitStream(Budget(0, 0, 0, 0, 0, 0))
  /\ NoLoops
  /\ InitGate
  /\ NoCalls
  /\ NoClient
  /\ autoDeserialize \in BOOLEAN
  /\ \E missing \in SUBSET Range(RedisConfig) : env = AllConfig \ missing

NextSubmit ==
  \/ \E c \in 1..MaxCalls, u \in Users : SubmitLoad(c, u)
  \/ \E c \in 1..MaxCalls : SubmitChunk(c)
  \/ \E c \in 1..MaxCalls : SubmitDone(c)
  \/ \E c \in 1..MaxCalls : SubmitFail(c)

SpecSubmit == InitSubmit /\ [][NextSubmit]_vars

\* A page with one of the hooks, and a network that carries any frames in
\* any chunks.
InitClient ==
  /\ variant = "ai"
  /\ conversationStore = EmptyStore
  /\ completed = NoHistory
  /\ issued = {}
  /\ usedIds = {}
  /\ InitStream(Budget(0, 0, 0, 0, 0, 0))
  /\ NoLoops
  /\ InitGate
  /\ NoCalls
  /\ autoDeserialize = TRUE
  /\ env = AllConfig
  /\ NoSends
  /\ client \in Clients
  /\ netBudget = MaxFrames

NextClient ==
  \/ SendMessage
  \/ Render
  \/ \E k \in 1..MaxTurns : FetchOk(k)
  \/ \E k \in 1..MaxTurns : FetchFails(k)
  \/ \E k \in 1..MaxTurns : NetWrite(k)
  \/ \E k \in 1..MaxTurns : NetWriteMalformed(k)
  \/ \E k \in 1..MaxTurns : NetClose(k)
  \/ \E k \in 1..MaxTurns : NetDrop(k)
  \/ \E k \in 1..MaxTurns : \E n \in 1..(MaxFrames * 4) : ClientRead(k, n)
  \/ \E k \in 1..MaxTurns : ClientDone(k)
  \/ \E k \in 1..MaxTurns : ClientCatch(k)
  \/ \E k \in 1..MaxTurns : AbortCaught(k)

SpecClient == InitClient /\ [][NextClient]_vars

\* A server and a page of its hook: the page reads the stream of the
\* request, one frame in every chunk.
InitEndToEnd ==
  /\ variant \in {"ai", "sse"}
  /\ conversationStore = EmptyStore
  /\ completed = NoHistory
  /\ issued = {}
  /\ usedIds = {}
  /\ InitStream(Budget(1, 0, 2, 1, 1, 0))
  /\ NoLoops
  /\ InitGate
  /\ NoCalls
  /\ autoDeserialize = TRUE
  /\ env = AllConfig
  /\ NoSends
  /\ client \in {"api", "streams"}
  /\ netBudget = 0

NextEndToEnd ==
  \/ \E p \in Params : AIChat(p)
  \/ AIModelChunk
  \/ AIModelToolCalls
  \/ AIModelFinish
  \/ AIModelFail
  \/ AIToolExecute
  \/ AIStepFinish
  \/ AIReadChunk
  \/ AILoopEnd
  \/ AILoopCatch
  \/ \E p \in Params : SSEChat(p)
  \/ SSEModelStream
  \/ SSEModelToolCalls
  \/ SSEModelFinal
  \/ SSEModelFail
  \/ SSEToolInvoke
  \/ SSELoopEnd
  \/ SSELoopCatch
  \/ SendMessage
  \/ \E k \in 1..MaxTurns : FetchOk(k)
  \/ \E k \in 1..MaxTurns : Relay(k)
  \/ \E k \in 1..MaxTurns : ClientRead(k, FrameLen(client))
  \/ \E k \in 1..MaxTurns : ClientDone(k)
  \/ Render
  \/ \E k \in 1..MaxTurns : AbortCaught(k)

SpecEndToEnd == InitEndToEnd /\ [][NextEndToEnd]_vars

\* A server and a page of its hook that reads the stream while the server
\* writes it, at any pace.
NextDelivery ==
  \/ \E p \in Params : AIChat(p)
  \/ AIModelChunk
  \/ AIModelToolCalls
  \/ AIModelFinish
  \/ AIModelFail
  \/ AIToolExecute
  \/ AIStepFinish
  \/ AIReadChunk
  \/ AILoopEnd
  \/ AILoopCatch
  \/ \E p \in Params : SSEChat(p)
  \/ SSEModelStream
  \/ SSEModelToolCalls
  \/ SSEModelFinal
  \/ SSEModelFail
  \/ SSEToolInvoke
  \/ SSELoopEnd
  \/ SSELoopCatch
  \/ SendMessage
  \/ \E k \in 1..MaxTurns : FetchOk(k)
  \/ \E k \in 1..MaxTurns : Pull(k)
  \/ \E k \in 1..MaxTurns : PullEnd(k)
  \/ \E k \in 1..MaxTurns : ClientRead(k, FrameLen(client))
  \/ \E k \in 1..MaxTurns : ClientDone(k)
  \/ Render
  \/ \E k \in 1..MaxTurns : AbortCaught(k)

SpecDelivery == InitEndToEnd /\ [][NextDelivery]_vars

\* The page of a visitor who comes back to at most one stored session, and
\* its sessions: created, selected, deleted, cleared, and sent on.
InitSessions ==
  /\ variant = "ai"
  /\ conversationStore = EmptyStore
  /\ completed = NoHistory
  /\ issued = {}
  /\ usedIds = {}
  /\ InitStream(Budget(0, 0, 0, 0, 0, 0))
  /\ NoLoops
  /\ InitGate
  /\ NoCalls
  /\ autoDeserialize = TRUE
  /\ env = AllConfig
  /\ sends = [k \in 1..MaxTurns |-> IdleSend]
  /\ aiMessages = [k \in 1..MaxTurns |-> NoMessage]
  /\ isStreaming = FALSE
  /\ closureStreaming = FALSE
  /\ abortControllerRef = 0
  /\ client \in {"lib", "api", "streams"}
  /\ netBudget = 0
  /\ \E n \in 0..1 :
       /\ localStorage = [i \in 1..n |-> i]
       /\ sessions = [i \in 1..n |-> i]
       /\ sessionCount = n
  /\ currentSessionId = 0
  /\ checkpointId = NoId
  /\ pageStream = NoStream
  /\ fetched = << >>
  /\ handedOut = 0
  /\ removed = {}
  /\ lastCreate = [before |-> << >>, after |-> << >>, id |-> 0]
  /\ receivedFor = [s \in 1..MaxSessions |-> NoId]

NextSessions ==
  \/ PageNewChat
  \/ \E id \in 1..MaxSessions : PageSelect(id)
  \/ \E id \in 1..MaxSessions : PageDelete(id)
  \/ PageClearAll
  \/ PageSend
  \/ PageCheckpoint
  \/ PageStreamEnds

SpecSessions == InitSessions /\ [][NextSessions]_vars

\* The page with a network that settles every fetch and ends every body,
\* and a runtime that runs every continuation and renders every change of
\* state.  Nothing obliges the user to send or the server to write.
InitClientLive ==
  /\ variant = "ai"
  /\ conversationStore = EmptyStore
  /\ completed = NoHistory
  /\ issued = {}
  /\ usedIds = {}
  /\ InitStream(Budget(0, 0, 0, 0, 0, 0))
  /\ NoLoops
  /\ InitGate
  /\ NoCalls
  /\ autoDeserialize = TRUE
  /\ env = AllConfig
  /\ NoSends
  /\ client \in {"lib", "api"}
  /\ netBudget = 1

ClientFairness ==
  /\ WF_vars(Render)
  /\ \A k \in 1..MaxTurns :
       /\ WF_vars(FetchOk(k) \/ FetchFails(k))
       /\ WF_vars(NetClose(k) \/ NetDrop(k))
       /\ WF_vars(\E n \in 1..(MaxFrames * 4) : ClientRead(k, n))
       /\ WF_vars(ClientDone(k))
       /\ WF_vars(ClientCatch(k))
       /\ WF_vars(AbortCaught(k))

SpecClientLive == InitClientLive /\ [][NextClient]_vars /\ ClientFairness

\* GET/POST with action=clear while streams are in flight.  beforeClear marks
\* the streams whose request came before a clear of their thread.
LoopClear(param) ==
  /\ variant = "ai"
  /\ budget.clears > 0
  /\ param # NoId
  /\ conversationStore' = clearConversationHistory(conversationStore, param)
  /\ completed' = [completed EXCEPT ![param] = << >>]
  /\ loops' = [s \in 1..MaxLoops |->
                 IF loops[s].pc # "free" /\ loops[s].threadId = param
                   THEN [loops[s] EXCEPT !.beforeClear = TRUE]
                   ELSE loops[s]]
  /\ budget' = Spend(budget, "clears", 1)
  /\ UNCHANGED <<variant, issued, usedIds, reqVars, pc, events, loopVars, threw,
                 step, phase, textQ, toolCalls, toolResults, toolFeedback, toolTurns,
                 failedCalls, modelFailed, generated>>
  /\ UNCHANGED <<env, gateVars, submitVars, clientVars, pageVars>>

\* Requests that overlap and clients that go away.
InitLoops == Init

NextLoops ==
  \/ \E s \in 1..MaxLoops, p \in Params : LoopStart(s, p)
  \/ \E s \in 1..MaxLoops : ClientCancel(s)
  \/ \E s \in 1..MaxLoops : LoopChunk(s)
  \/ \E s \in 1..MaxLoops : LoopToolRequest(s)
  \/ \E s \in 1..MaxLoops : LoopToolDone(s)
  \/ \E s \in 1..MaxLoops : LoopModelEnd(s)
  \/ \E s \in 1..MaxLoops : LoopModelFail(s)
  \/ \E s \in 1..MaxLoops : LoopEnd(s)
  \/ \E s \in 1..MaxLoops : LoopCatch(s)

SpecLoops == InitLoops /\ [][NextLoops]_vars

\* createAIStream with requests that overlap and a clear request among them.
InitLoopsClear ==
  /\ variant = "ai"
  /\ conversationStore = EmptyStore
  /\ completed = NoHistory
  /\ issued = {}
  /\ usedIds = {}
  /\ InitStream(FullBudget)
  /\ InitExt

NextLoopsClear ==
  \/ NextLoops
  \/ \E p \in Params : LoopClear(p)

SpecLoopsClear == InitLoopsClear /\ [][NextLoopsClear]_vars

\* Requests that overlap on a process that holds a long conversation.
SpecLoopsHistory == InitHistory /\ [][NextLoops]_vars


\* ----------------------------------------------- reading the events
Idx(evs) == 1..Len(evs)

OfType(evs, t) == {i \in Idx(evs) : evs[i].type = t}

IsTerminal(e) == e.type \in {"end", "error"}

IsClosing(e) == e.type \in {"search_results", "search_error"}

LastEv(evs) == evs[Len(evs)]

\* The text of the content events of evs, concatenated in emission order.
RECURSIVE ContentText(_)
ContentText(evs) ==
  IF evs = << >> THEN << >>
  ELSE (IF Head(evs).type = "content" THEN Head(evs).content ELSE << >>)
         \o ContentText(Tail(evs))

\* The position after the tool lifecycle that starts at i: the next
\* search_start, or the end of the sequence.
NextStart(evs, i) ==
  LET later == {j \in OfType(evs, "search_start") : j > i}
  IN IF later = {} THEN Len(evs) + 1 ELSE CHOOSE j \in later : \A k \in later : j <= k

ClosingsOf(evs, i) == {j \in Idx(evs) : i < j /\ j < NextStart(evs, i) /\ IsClosing(evs[j])}

\* ------------------------------------------------------------ claims

\* C1: no content event carries text of a model turn that ends in a tool
\* request (the turn a token comes from is the token itself).
C1_ContentGating ==
  \A i \in OfType(events, "content") :
    \A k \in 1..Len(events[i].content) : events[i].content[k] \notin toolTurns

\* C2: every search_start is followed by exactly one search_results or
\* search_error before the next search_start (and, once the stream is closed,
\* before its end).
C2_NoInterleaving ==
  \A i \in OfType(events, "search_start") :
    (NextStart(events, i) <= Len(events) \/ pc = "closed")
      => Cardinality(ClosingsOf(events, i)) = 1

\* C3: a stream carries one terminal event, `end` or `error`, and it is the
\* last event: none while the loop runs, exactly one (the last) once it is
\* closed; `end` only when nothing failed, `error` when something did.
C3_OneTerminalLast ==
  /\ \A i \in Idx(events) : IsTerminal(events[i]) => (i = Len(events) /\ pc = "closed")
  /\ pc = "closed" =>
       /\ events # << >>
       /\ IsTerminal(LastEv(events))
       /\ LastEv(events).type = "end" <=> ~modelFailed
       /\ LastEv(events).type = "error" <=> threw

\* C3 witness: a closed stream whose `error` follows a search and content.
C3_Witness ==
  /\ pc = "closed"
  /\ LastEv(events).type = "error"
  /\ OfType(events, "search_start") # {}
  /\ OfType(events, "content") # {}

\* C4: in a stream that ended with `end`, every search_start is closed by a
\* later search_results or search_error, and a failed execution of a started
\* search left a search_error.
C4_FailureSurfaced ==
  (pc = "closed" /\ LastEv(events).type = "end") =>
    /\ \A i \in OfType(events, "search_start") :
         \E j \in Idx(events) : j > i /\ IsClosing(events[j])
    /\ (failedCalls > 0 /\ OfType(events, "search_start") # {})
         => OfType(events, "search_error") # {}

\* The tool results the model has been or will be given.
AllResults == toolFeedback \o toolResults

ErrorResults == {i \in 1..Len(AllResults) : AllResults[i].error # ""}

\* C5: every failed tool execution is an error-annotated tool result, the
\* results of a tool step are all handed to the next model turn, only a
\* failed model call fails the agent, and a stream without one ends in `end`.
C5_ToolErrorIsLocal ==
  /\ Cardinality(ErrorResults) = failedCalls
  /\ phase \in {"model", "ended"} => toolResults = << >>
  /\ phase = "failed" => modelFailed
  /\ (pc = "closed" /\ ~modelFailed) => LastEv(events).type = "end"

\* C5 witness: a stream with a failed tool execution ended in `end`, and a
\* later model turn had the error result.
C5_Witness ==
  /\ pc = "closed"
  /\ failedCalls > 0
  /\ step > 1
  /\ \E i \in 1..Len(toolFeedback) : toolFeedback[i].error # ""
  /\ LastEv(events).type = "end"


C7_StepLimitError ==
  /\ step <= maxSteps
  /\ (pc = "closed" /\ ~modelFailed /\ maxSteps \in toolTurns) =>
       /\ LastEv(events).type = "error"
       /\ LastEv(events).error = "step_limit_exceeded"

\* C8: a request without checkpoint_id gets exactly one checkpoint event,
\* first, with the new id; a request with a checkpoint_id taken from an
\* earlier checkpoint event gets none.
C8_CheckpointEmission ==
  pc \in {"running", "closed"} =>
    IF checkpointParam = NoId
      THEN /\ events # << >>
           /\ events[1] = CheckpointEv(threadId)
           /\ Cardinality(OfType(events, "checkpoint")) = 1
      ELSE OfType(events, "checkpoint") = {}

UserTurn == <<Msg("user", <<message>>)>>

C10_TwoTurnsAppended ==
  [][(pc = "running" /\ pc' = "closed" /\ LastEv(events').type = "end") =>
       conversationStore' =
         MapSet(conversationStore, threadId,
                LastN(getConversationHistory(conversationStore, threadId)
                        \o UserTurn \o <<Msg("assistant", ContentText(events'))>>,
                      HistoryLimit))]_vars

\* C10 witness: a finished loop with content of two model turns, saved on the
\* thread that was full.
C10_Witness ==
  /\ pc = "closed"
  /\ LastEv(events).type = "end"
  /\ Cardinality(OfType(events, "content")) >= 2
  /\ threadId \in DOMAIN conversationStore
  /\ Len(conversationStore[threadId]) = HistoryLimit
  /\ conversationStore[threadId][HistoryLimit].content = ContentText(events)

\* C16: a clear request deletes the history of the supplied checkpoint_id
\* and of no other conversation (nothing when no checkpoint_id is supplied),
\* opens no stream and makes no model or tool call.
C16_ClearFrame ==
  [][budget'.clears < budget.clears =>
       /\ DOMAIN conversationStore' = DOMAIN conversationStore \ {checkpointParam'}
       /\ \A t \in DOMAIN conversationStore' : conversationStore'[t] = conversationStore[t]
       /\ pc' # "running"
       /\ events' = << >>
       /\ requests' = requests
       /\ budget' = Spend(budget, "clears", 1)]_vars

\* C16 witness: a clear request deleted a stored conversation and another
\* conversation is still stored.
C16_Witness ==
  /\ pc = "idle"
  /\ budget.clears < MaxClears
  /\ checkpointParam \in DOMAIN storeAtStart
  /\ checkpointParam \notin DOMAIN conversationStore
  /\ DOMAIN conversationStore # {}

\* The tool calls of the stream that were executed, with a non-empty query.
ExecutedSearches == {i \in 1..Len(AllResults) : AllResults[i].query # ""}

\* C19: every tool call that was executed with a query had its search_start
\* on the stream before its execution began.
C19_StartBeforeExecute ==
  Cardinality(ExecutedSearches) <= Cardinality(OfType(events, "search_start"))

\* The search_results events, and the tool results that returned URLs, each
\* in order.
SearchResultsEvents == SelectSeq(events, LAMBDA e : e.type = "search_results")
UrlResults == SelectSeq(AllResults, LAMBDA r : ResultUrls(r) # << >>)

\* C20: the k-th search_results event carries exactly the URLs of the k-th
\* tool call that returned URLs, in the tool's order.
C20_FreshUrls ==
  \A k \in 1..Len(SearchResultsEvents) :
    /\ k <= Len(UrlResults)
    /\ SearchResultsEvents[k].urls = ResultUrls(UrlResults[k])

Running == {s \in 1..MaxLoops : loops[s].pc = "running"}

\* C11: no two loops are active for the same conversation at the same time.
C11_OneLoopPerConversation ==
  \A a, b \in Running : a # b => loops[a].threadId # loops[b].threadId

\* C12: no model turn and no tool execution begins for a stream after its
\* client went away.
C12_NoWorkAfterCancel ==
  \A s \in 1..MaxLoops : loops[s].lateWork = 0

\* C13: a loop whose stream was cancelled before its `end` event has not
\* written the store.
C13_CancelledNeverSaves ==
  \A s \in 1..MaxLoops : loops[s].saved => ~loops[s].cancelled

GoodCredentials == Given(<<"Bearer ", adminApiKey>>)
BlankMessages == {Absent, Given(<< >>), Given(<<" ">>)}

\* C17: with the configuration in place, a request with a missing or wrong
\* bearer credential is answered 401, a chat request with a missing or blank
\* message 400, both with a JSON error; the step opens no stream, emits no
\* event, makes no model or tool call and leaves the store as it was.
C17_RejectedNeverStreams ==
  [][((request' # request \/ httpResponse' # httpResponse)
        /\ validateEnvironment(env) = << >>) =>
       LET rejected(st) ==
             /\ httpResponse' = Reply(st, "error", << >>)
             /\ UNCHANGED <<storeVars, reqVars, pc, events, loopVars, envVars, threw, loops>>
       IN /\ request'.authorization # GoodCredentials => rejected(401)
          /\ (/\ request'.authorization = GoodCredentials
              /\ ~IsClear(request')
              /\ request'.message \in BlankMessages) => rejected(400)]_vars

\* C17 witness: after a conversation was stored, a request with a wrong
\* bearer token was answered 401.
C17_Witness ==
  /\ httpResponse.status = 401
  /\ request.authorization = Given(<<"Bearer ", "bad">>)
  /\ pc = "closed"
  /\ DOMAIN conversationStore # {}

\* C18: a request is answered 500 exactly when a required configuration
\* value is missing, and the error then names exactly the missing values.
C18_ConfigCheck ==
  httpResponse.status # 0 =>
    LET missing == AllConfig \ env
    IN IF missing = {} THEN httpResponse.status # 500
       ELSE /\ httpResponse.status = 500
            /\ Range(httpResponse.missingVars) = missing

\* The history stored for a user, decoded.
Stored(u) == IF historyKey(u) \in DOMAIN redisData THEN redisData[historyKey(u)].v ELSE << >>

\* C14: with Redis in place and reads that return what was written, the
\* stored history of a user holds the user turn of every call of
\* submitMessage that reached its save.
C14_NoLostUpdate ==
  (redis = "client" /\ ~autoDeserialize) =>
    \A c \in 1..MaxCalls :
      submits[c].pc = "done" =>
        \E i \in 1..Len(Stored(submits[c].userId)) :
          Stored(submits[c].userId)[i] = Msg("user", <<submits[c].content>>)

\* C15: loading a user's history returns the sequence that was last saved
\* for that user.
C15_RoundTrip ==
  \A u \in DOMAIN lastSaved : loadChatHistory(redisData, u) = lastSaved[u]

\* The content events of evs, in order.
ContentEvents(evs) == SelectSeq(evs, LAMBDA e : e.type = "content")

\* The stream of a new conversation (no checkpoint_id supplied) closed
\* without a failure of the model or of a tool.
NewConversationDone ==
  /\ pc = "closed" /\ ~threw /\ ~modelFailed /\ failedCalls = 0
  /\ checkpointParam = NoId

\* The tool-success scenario: the first model turn requested one search for
\* q1 and generated no text, the tool returned u1 and u2, the second turn
\* answered with text.
ToolSuccessScenario ==
  /\ NewConversationDone
  /\ toolTurns = {1}
  /\ Len(toolFeedback) = 1
  /\ toolFeedback[1].query = "q1"
  /\ toolFeedback[1].results = <<"u1", "u2">>
  /\ toolFeedback[1].raw \in {"object", "array"}
  /\ generated # << >>
  /\ \A i \in 1..Len(generated) : generated[i] = 2

NoToolScenario ==
  /\ NewConversationDone
  /\ toolTurns = {}
  /\ generated # << >>

\* C22: in the no-tool scenario the events are checkpoint, one or more
\* content events of non-empty text that add up to the model's text, end.
C22_NoToolSequence ==
  NoToolScenario =>
    /\ events = <<CheckpointEv(threadId)>> \o ContentEvents(events) \o <<EndEv>>
    /\ ContentEvents(events) # << >>
    /\ \A i \in Idx(events) : events[i].type = "content" => events[i].content # << >>
    /\ ContentText(events) = generated

C22_Witness == NoToolScenario /\ Len(generated) = 2 /\ budget.chunks = 0

\* ------------------------------------------------ claims: the client
IsPrefix(a, b) == Len(a) <= Len(b) /\ SubSeq(b, 1, Len(a)) = a

NoDuplicate(q) == \A i, j \in 1..Len(q) : q[i] = q[j] => i = j

\* The events of the lines a call has handled that parsed.
ParsedEvents(lines) ==
  [i \in 1..Len(SelectSeq(lines, Parses)) |-> SelectSeq(lines, Parses)[i][1].ev]

\* C23: within a turn every step of the reducer keeps the stages it had, in
\* their order, and holds no stage twice; so does the message shown.
C23_StagesOnlyGrow ==
  [][\A k \in 1..MaxTurns :
       /\ IsPrefix(sends[k].st.stages, sends'[k].st.stages)
       /\ NoDuplicate(sends'[k].st.stages)
       /\ IsPrefix(aiMessages[k].stages, aiMessages'[k].stages)
       /\ NoDuplicate(aiMessages'[k].stages)]_vars

C23_Witness ==
  \E k \in 1..MaxTurns :
    /\ ParsedEvents(sends[k].fed) = <<SearchStartEv("q1"), SearchStartEv("q1")>>
    /\ aiMessages[k].stages = <<"searching">>

\* The stream of call k held an event of type t.
Sent(k, t) == \E i \in 1..Len(sends[k].sent) : sends[k].sent[i].type = t

\* C24: when the stream of a turn held a search_start and its end and the
\* hook has marked the message complete, the stages shown hold searching and
\* reading.
C24_SearchStagesReached ==
  \A k \in 1..MaxTurns :
    (/\ sends[k].pc = "completed" /\ ~aiMessages[k].isLoading
     /\ Sent(k, "search_start") /\ Sent(k, "end")) =>
      {"searching", "reading"} \subseteq Range(aiMessages[k].stages)

\* Call k has run its read loop on the lines of sends[k].fed.
Folded(k) == sends[k].pc \in {"reading", "completed"}

\* What a message displays.
Display(m) == <<m.content, m.sources, m.stages, m.query, m.urls, m.error, m.isLoading>>

\* C25: the locals of a call are the fold of the lines it has handled from
\* fresh locals, so two calls that handled the same lines hold the same
\* locals, and show the same message once both are complete, whatever the
\* earlier turn left.
C25_PureFold ==
  \A i, j \in 1..MaxTurns :
    (Folded(i) /\ Folded(j) /\ sends[i].fed = sends[j].fed) =>
      /\ sends[i].st = processLines(client, sends[i].fed, FreshLocals)
      /\ sends[i].st = sends[j].st
      /\ (sends[i].pc = "completed" /\ sends[j].pc = "completed") =>
           Display(aiMessages[i]) = Display(aiMessages[j])

C25_Witness ==
  /\ sends[1].pc = "completed" /\ sends[2].pc = "completed"
  /\ sends[1].fed = sends[2].fed
  /\ ParsedEvents(sends[2].fed) = <<SearchResultsEv(<<"u1", "u2">>)>>
  /\ aiMessages[2].stages = <<"reading">>

\* The locals after the frames of `sent`, each read in a chunk of its own.
RECURSIVE Framewise(_, _, _)
Framewise(c, sent, st) ==
  IF sent = << >> THEN st
  ELSE LET pieces == IF Head(sent).type = "malformed" THEN SerializeMalformed(c)
                     ELSE Serialize(c, Head(sent))
       IN Framewise(c, Tail(sent), processChunk(c, pieces, st))

\* C26: a call that read its whole stream ends with the locals it has when
\* every frame arrives in a chunk of its own, however the reads cut the
\* stream.
C26_ChunkingIndependent ==
  \A k \in 1..MaxTurns :
    sends[k].pc = "completed" =>
      sends[k].st = Framewise(client, sends[k].sent, FreshLocals)

\* C27: the lines that do not parse leave no trace: the text, the stages and
\* the URLs of a call are those of the fold of its well-formed lines alone.
C27_MalformedSkipped ==
  \A k \in 1..MaxTurns :
    Folded(k) =>
      LET clean == processLines(client, SelectSeq(sends[k].fed, Parses), FreshLocals)
      IN /\ sends[k].st.contentBuffer = clean.contentBuffer
         /\ sends[k].st.stages = clean.stages
         /\ sends[k].st.urls = clean.urls

\* The fold of applyEvent over evs.
RECURSIVE applyEvents(_, _, _)
applyEvents(c, evs, st) ==
  IF evs = << >> THEN st ELSE applyEvents(c, Tail(evs), applyEvent(c, Head(evs), st))

\* The position of the first `error` event among the events call k applied,
\* 0 when there is none.
FirstError(k) ==
  LET evs == ParsedEvents(sends[k].fed)
      at == {i \in 1..Len(evs) : evs[i].type = "error"}
  IN IF at = {} THEN 0 ELSE CHOOSE i \in at : \A j \in at : i <= j

\* C28: a call that applied an `error` event ends with a message in the
\* error state, whose text, stages and URLs are those the events before the
\* error left.
C28_ErrorEndsTurn ==
  \A k \in 1..MaxTurns :
    (sends[k].pc = "completed" /\ FirstError(k) > 0) =>
      /\ aiMessages[k].error # ""
      /\ ~aiMessages[k].isLoading
      /\ LET before == SubSeq(ParsedEvents(sends[k].fed), 1, FirstError(k) - 1)
             st == applyEvents(client, before, FreshLocals)
         IN /\ aiMessages[k].stages = st.stages
            /\ aiMessages[k].urls = st.urls

\* C29: the placeholder of every call ends up with isLoading false.
C29_EveryTurnTerminates ==
  \A k \in 1..MaxTurns : aiMessages[k].shown ~> ~aiMessages[k].isLoading

\* C30: the text a useChatStream call has accumulated is the text of the
\* content events it applied, concatenated in their order.
C30_TextIsConcatenation ==
  \A k \in 1..MaxTurns :
    (Folded(k) /\ client \in {"lib", "api"}) =>
      sends[k].st.contentBuffer = ContentText(ParsedEvents(sends[k].fed))


\* The events of the frames call k has read, and of those in flight to it.
Received(k) == ParsedEvents(sends[k].fed)

InFlight(k) == ParsedEvents(SplitLines(sends[k].wire, << >>))

\* Call k reads the stream of the request the server serves.
Reads(k) == Folded(k) /\ k = requests /\ pc \in {"running", "closed"}

\* C31: a frame of formatSSE holds one line, which parses to its event; what
\* the reader of a stream has received and what is in flight to it are, in
\* this order, the first events the stream emitted, at whatever pace it
\* reads; once the reader has seen the body end it has received every event.
C31_FramesInOrder ==
  \A k \in 1..MaxTurns :
    Reads(k) =>
      /\ \A i \in 1..Len(events) :
           /\ Len(SplitLines(formatSSE(events[i]), << >>)) = 1
           /\ ParsedEvents(SplitLines(formatSSE(events[i]), << >>)) = <<events[i]>>
      /\ IsPrefix(Received(k) \o InFlight(k), events)
      /\ sends[k].pc = "completed" => Received(k) = events

\* The reader fell behind a stream of several events, and caught up.
C31_Witness ==
  \E k \in 1..MaxTurns :
    /\ Reads(k) /\ sends[k].pc = "completed"
    /\ Len(events) >= 4
    /\ Received(k) = events


\* C32: every stream that was opened is closed in the end, with a terminal
\* event as its last event, whether or not the tool and the model answer.
C32_StreamNeverHangs ==
  (pc = "running") ~> (pc = "closed" /\ events # << >> /\ IsTerminal(LastEv(events)))


\* A history of completed turns: user, assistant, user, assistant, ...
Alternates(h) ==
  /\ Len(h) % 2 = 0
  /\ \A i \in 1..Len(h) : h[i].role = (IF i % 2 = 1 THEN "user" ELSE "assistant")

\* C33: whatever streams have completed, one after the other or overlapping
\* on one thread, every stored history holds at most HistoryLimit messages,
\* also after the next call of addToConversationHistory on it, and is an
\* even number of messages that alternate from a user message.
C33_HistoryShape ==
  \A t \in DOMAIN conversationStore :
    /\ Len(conversationStore[t]) <= HistoryLimit
    /\ \A r \in {"user", "assistant"} :
         Len(addToConversationHistory(conversationStore, t, Msg(r, << >>))[t])
           <= HistoryLimit
    /\ Alternates(conversationStore[t])

\* Two streams overlapped on the thread of the long conversation: the one
\* that started second saved its turn first, and the history was cut twice.
C33_Witness ==
  /\ "t1" \in DOMAIN conversationStore
  /\ Len(conversationStore["t1"]) = HistoryLimit
  /\ conversationStore["t1"][HistoryLimit - 3].content = <<MsgBase + 2>>
  /\ conversationStore["t1"][HistoryLimit - 1].content = <<MsgBase + 1>>


\* The history h ends with the turn of message msg and answer response.
EndsWithTurn(h, msg, response) ==
  /\ Len(h) >= 2
  /\ SubSeq(h, Len(h) - 1, Len(h)) = <<Msg("user", <<msg>>), Msg("assistant", response)>>

\* C34: in createAIStream, the step that enqueues `end` leaves the turn of the
\* stream at the end of the stored history of its thread, and the request
\* that follows a stream that ended with `end`, on the same thread, gives
\* the model that turn right before the new user message.
C34_PersistBeforeEnd ==
  [][variant = "ai" =>
       /\ (Len(events') = Len(events) + 1 /\ LastEv(events') = EndEv) =>
            /\ threadId \in DOMAIN conversationStore'
            /\ EndsWithTurn(conversationStore'[threadId], message, fullResponse)
       /\ (/\ pc = "closed" /\ LastEv(events) = EndEv
           /\ pc' = "running" /\ threadId' = threadId) =>
            /\ LastEv(modelMessages') = Msg("user", <<message'>>)
            /\ EndsWithTurn(SubSeq(modelMessages', 1, Len(modelMessages') - 1),
                            message, fullResponse)]_vars

\* A follow-up request on the thread of a stream that ended with `end`.
C34_Witness ==
  /\ variant = "ai" /\ pc = "running" /\ requests = 2
  /\ checkpointParam = threadId
  /\ Len(modelMessages) = 3
  /\ modelMessages[1] = Msg("user", <<MsgBase + 1>>)


\* Call k has a request or a stream that was not aborted and has not ended.
Live(k) == sends[k].pc \in {"fetching", "reading"}

\* C35: in the hooks that abort, isStreaming is true exactly while a call is
\* live, and while a call is live abortControllerRef holds its controller,
\* also after a call that it aborted has run to its end.
C35_StreamExclusive ==
  client # "chat" =>
    /\ isStreaming <=> \E k \in 1..MaxTurns : Live(k)
    /\ \A k \in 1..MaxTurns : Live(k) => abortControllerRef = k


\* C36: no session that deleteSession or clearAllSessions removed is in the
\* stored list, and the last createNewChat left the stored list it found
\* plus its new session.
C36_DeletedStaysDeleted ==
  /\ \A i \in 1..Len(localStorage) : localStorage[i] \notin removed
  /\ lastCreate.id # 0 => lastCreate.after = Append(lastCreate.before, lastCreate.id)

\* C38: a request sent for a session for which a checkpoint was received
\* carries that checkpoint, and a request never carries a checkpoint that
\* was received for another session.
C38_CheckpointContinuity ==
  HoldsCheckpoint =>
    \A i \in 1..Len(fetched) :
      LET f == fetched[i]
      IN /\ f.receivedFor[f.session] # NoId => f.checkpoint_id = f.receivedFor[f.session]
         /\ \A s \in 1..MaxSessions :
              (s # f.session /\ f.checkpoint_id # NoId) =>
                f.receivedFor[s] # f.checkpoint_id


\* A chat request for thread t was submitted after the last clear of t.
RequestSinceClear(t) ==
  \E s \in 1..MaxLoops :
    loops[s].pc # "free" /\ loops[s].threadId = t /\ ~loops[s].beforeClear

\* C37: after a clear of a thread, while no chat request for the thread has
\* been submitted, its stored history is empty; a stream that was in flight
\* when the clear ran saves nothing into it.
C37_ClearedStaysEmpty ==
  \A s \in 1..MaxLoops :
    (loops[s].beforeClear /\ ~RequestSinceClear(loops[s].threadId)) =>
      getConversationHistory(conversationStore, loops[s].threadId) = << >>

====
